---- MODULE Spec2Model ----
(***************************************************************************)
(* Model of the filter-compilation and distribution-estimation engine of   *)
(* backend/server.py: _build_filters, _tag_query and search_estimate,      *)
(* together with the PostgreSQL statements they issue against the table    *)
(* hemnet_items and the geocoding backfill that writes to that table.      *)
(*                                                                         *)
(* SQL text is modelled as a sequence of tokens, so that concatenation,    *)
(* str.replace and the number of %s placeholders are computed as the code  *)
(* computes them; the database side parses that token sequence and         *)
(* evaluates it over the rows.                                             *)
(***************************************************************************)
EXTENDS Integers, Sequences, FiniteSets, TLC

(***************************************************************************)
(* Python / SQL values.  Every value has the same record shape so that     *)
(* values of different kinds can be compared.                              *)
(***************************************************************************)
Null == [t |-> "null", n |-> 0, s |-> "", l |-> <<>>]

Num(k) == [t |-> "num", n |-> k, s |-> "", l |-> <<>>]

Str(x) == [t |-> "str", n |-> 0, s |-> x, l |-> <<>>]

\* a Python list (or a jsonb array) of values
List(xs) == [t |-> "list", n |-> 0, s |-> "", l |-> xs]

\* a text column whose characters matter (the year column): l holds the characters
Text(cs) == [t |-> "text", n |-> 0, s |-> "", l |-> cs]

\* a jsonb object of the labels / relevant_amenities arrays
Obj(text, title) == [t |-> "obj", n |-> 0, s |-> "", l |-> <<text, title>>]

IsNull(v) == v.t = "null"

(***************************************************************************)
(* Sequence helpers.                                                       *)
(***************************************************************************)
RECURSIVE Concat(_)
Concat(seqs) == IF seqs = <<>> THEN <<>> ELSE Head(seqs) \o Concat(Tail(seqs))

\* " AND ".join(clauses), each clause being a token sequence
RECURSIVE JoinAnd(_)
JoinAnd(clauses) ==
    IF clauses = <<>> THEN <<>>
    ELSE IF Len(clauses) = 1 THEN Head(clauses)
    ELSE Head(clauses) \o <<"AND">> \o JoinAnd(Tail(clauses))

RECURSIVE CountTok(_, _)
CountTok(toks, tok) ==
    IF toks = <<>> THEN 0
    ELSE (IF Head(toks) = tok THEN 1 ELSE 0) + CountTok(Tail(toks), tok)

Range(f) == {f[i] : i \in DOMAIN f}

(***************************************************************************)
(* _build_filters                                                          *)
(***************************************************************************)
price_expr == "COALESCE(price, asked_price)"

year_expr == "CASE WHEN year ~ '^[0-9]{4}$' THEN year::int END"

\* filters.get(key)
Get(filters, key) == IF key \in DOMAIN filters THEN filters[key] ELSE Null

\* a variant that lacks the `is not None` test
Present_ignoring_none(filters, key) == key \in DOMAIN filters

\* key in filters and filters[key] is not None
Present(filters, key) == key \in DOMAIN filters /\ ~IsNull(filters[key])

\* a variant that formats the value into the text instead of binding it
RangeClause_inlined(expr, op, value) ==
    [clause |-> <<expr, op, ToString(value.n)>>, params |-> <<>>]

\* the comparison clauses are f"{expr} >= %s" and f"{expr} <= %s"
RangeClause(expr, op, value) == [clause |-> <<expr, op, "%s">>, params |-> <<value>>]

\* one `if key in filters and filters[key] is not None:` block
Bound(filters, key, expr, op) ==
    IF Present(filters, key) THEN <<RangeClause(expr, op, filters[key])>> ELSE <<>>

_add_range(filters, key_min, key_max, expr) ==
    Bound(filters, key_min, expr, ">=") \o Bound(filters, key_max, expr, "<=")

\* written max first, min second in the source
monthly_fee_range(filters) ==
    Bound(filters, "max_monthly_fee", "monthly_fee", "<=")
        \o Bound(filters, "min_monthly_fee", "monthly_fee", ">=")

\* the dict list_filters, in insertion order
list_filters ==
    << <<"housing_forms", "housing_form">>,
       <<"housing_form", "housing_form">>,
       <<"tenure", "tenure">>,
       <<"municipalities", "municipality_name">>,
       <<"regions", "region_name">>,
       <<"counties", "county_name">>,
       <<"types", "type">> >>

\* isinstance(value, list) and value
NonEmptyList(value) == value.t = "list" /\ Len(value.l) > 0

ListClause(column, value) ==
    [clause |-> <<column, "= ANY(", "%s", ")">>, params |-> <<value>>]

RECURSIVE list_clauses(_, _)
list_clauses(filters, pairs) ==
    IF pairs = <<>> THEN <<>>
    ELSE LET key == Head(pairs)[1]
             column == Head(pairs)[2]
             value == Get(filters, key)
         IN (IF NonEmptyList(value) THEN <<ListClause(column, value)>> ELSE <<>>)
                \o list_clauses(filters, Tail(pairs))

districts_clause(filters) ==
    IF NonEmptyList(Get(filters, "districts"))
    THEN << [clause |-> <<"EXISTS (SELECT 1 FROM jsonb_array_elements_text(COALESCE(districts, '[]'::jsonb)) AS d",
                          "WHERE", "d = ANY(", "%s", "))">>,
             params |-> <<filters["districts"]>>] >>
    ELSE <<>>

\* a variant that reads the list as [min_lng, max_lng, min_lat, max_lat]
bbox_clauses_paired(filters) ==
    LET bbox == Get(filters, "bbox")
    IN IF bbox.t = "list" /\ Len(bbox.l) = 4
       THEN << [clause |-> <<"latitude", "IS NOT NULL", "AND", "longitude", "IS NOT NULL">>,
                params |-> <<>>],
               [clause |-> <<"longitude", "BETWEEN", "%s", "AND", "%s">>,
                params |-> <<bbox.l[1], bbox.l[2]>>],
               [clause |-> <<"latitude", "BETWEEN", "%s", "AND", "%s">>,
                params |-> <<bbox.l[3], bbox.l[4]>>] >>
       ELSE <<>>

bbox_clauses(filters) ==
    LET bbox == Get(filters, "bbox")
    IN IF bbox.t = "list" /\ Len(bbox.l) = 4
       THEN << [clause |-> <<"latitude", "IS NOT NULL", "AND", "longitude", "IS NOT NULL">>,
                params |-> <<>>],
               [clause |-> <<"longitude", "BETWEEN", "%s", "AND", "%s">>,
                params |-> <<bbox.l[1], bbox.l[3]>>],
               [clause |-> <<"latitude", "BETWEEN", "%s", "AND", "%s">>,
                params |-> <<bbox.l[2], bbox.l[4]>>] >>
       ELSE <<>>

\* the clauses list and the params list as _build_filters appends to them
filter_parts(filters) ==
    _add_range(filters, "min_price", "max_price", price_expr)
        \o _add_range(filters, "min_rooms", "max_rooms", "rooms")
        \o _add_range(filters, "min_area", "max_area", "square_meters")
        \o _add_range(filters, "min_year", "max_year", year_expr)
        \o monthly_fee_range(filters)
        \o list_clauses(filters, list_filters)
        \o districts_clause(filters)
        \o bbox_clauses(filters)

\* the pair (where_sql, params); the empty string is the empty token sequence
_build_filters(filters) ==
    LET parts == filter_parts(filters)
        clauses == [i \in DOMAIN parts |-> parts[i].clause]
        params == Concat([i \in DOMAIN parts |-> parts[i].params])
    IN IF DOMAIN filters = {} \/ clauses = <<>>
       THEN [sql |-> <<>>, params |-> <<>>]
       ELSE [sql |-> <<"WHERE">> \o JoinAnd(clauses), params |-> params]

(***************************************************************************)
(* The table hemnet_items.  A row is a record of column values; its        *)
(* hemnet_id is its index in the dataset.                                  *)
(***************************************************************************)
Row(price, asked_price, rooms, square_meters, monthly_fee, year, housing_form, tenure, municipality_name, region_name, county_name, type, districts, labels, relevant_amenities, latitude, longitude, address) ==
    [price |-> price, asked_price |-> asked_price, rooms |-> rooms,
     square_meters |-> square_meters, monthly_fee |-> monthly_fee, year |-> year,
     housing_form |-> housing_form, tenure |-> tenure,
     municipality_name |-> municipality_name, region_name |-> region_name,
     county_name |-> county_name, type |-> type, districts |-> districts,
     labels |-> labels, relevant_amenities |-> relevant_amenities,
     latitude |-> latitude, longitude |-> longitude, address |-> address]

Digits == <<"0", "1", "2", "3", "4", "5", "6", "7", "8", "9">>

IsDigit(c) == \E d \in DOMAIN Digits : Digits[d] = c

DigitValue(c) == (CHOOSE d \in DOMAIN Digits : Digits[d] = c) - 1

\* year ~ '^[0-9]{4}$'
MatchesFourDigits(v) ==
    v.t = "text" /\ Len(v.l) = 4 /\ \A i \in 1..4 : IsDigit(v.l[i])

\* a variant that reads a two-digit year
YearInt_two_digits(v) == 10 * DigitValue(v.l[3]) + DigitValue(v.l[4])

\* year::int of a four-digit text
YearInt(v) ==
    1000 * DigitValue(v.l[1]) + 100 * DigitValue(v.l[2])
        + 10 * DigitValue(v.l[3]) + DigitValue(v.l[4])

NumericExprs ==
    {price_expr, year_expr, "asked_price", "rooms", "square_meters", "monthly_fee",
     "latitude", "longitude"}

TextColumns ==
    {"housing_form", "tenure", "municipality_name", "region_name", "county_name", "type"}

\* the value of a SQL expression of the statements above on one row
ExprValue(expr, row) ==
    CASE expr = price_expr -> IF ~IsNull(row.price) THEN row.price ELSE row.asked_price
      [] expr = year_expr ->
            IF MatchesFourDigits(row.year) THEN Num(YearInt(row.year)) ELSE Null
      [] expr = "asked_price" -> row.asked_price
      [] expr = "rooms" -> row.rooms
      [] expr = "square_meters" -> row.square_meters
      [] expr = "monthly_fee" -> row.monthly_fee
      [] expr = "latitude" -> row.latitude
      [] expr = "longitude" -> row.longitude
      [] expr = "housing_form" -> row.housing_form
      [] expr = "tenure" -> row.tenure
      [] expr = "municipality_name" -> row.municipality_name
      [] expr = "region_name" -> row.region_name
      [] expr = "county_name" -> row.county_name
      [] expr = "type" -> row.type
      [] OTHER -> Null

(***************************************************************************)
(* The database side: parsing a WHERE text with its bound parameters.      *)
(* A text that is not `WHERE cond AND cond ...` is a syntax error; the     *)
(* i-th %s takes the i-th parameter.                                       *)
(***************************************************************************)
districts_exists ==
    "EXISTS (SELECT 1 FROM jsonb_array_elements_text(COALESCE(districts, '[]'::jsonb)) AS d"

Cond(op, expr, args) == [op |-> op, expr |-> expr, args |-> args]

NoMatch == [ok |-> FALSE, cond |-> Cond("", "", <<>>), ntoks |-> 0, nparams |-> 0]

Matched(cond, ntoks, nparams) ==
    [ok |-> TRUE, cond |-> cond, ntoks |-> ntoks, nparams |-> nparams]

Starts(toks, pat) == Len(toks) >= Len(pat) /\ SubSeq(toks, 1, Len(pat)) = pat

\* the condition at the head of toks, taking its parameters from the head of ps
MatchCond(toks, ps) ==
    IF toks = <<>> THEN NoMatch
    ELSE LET e == Head(toks) IN
      CASE e \in NumericExprs /\ Starts(toks, <<e, ">=", "%s">>) /\ Len(ps) >= 1 ->
              Matched(Cond("ge", e, <<ps[1]>>), 3, 1)
        [] e \in NumericExprs /\ Starts(toks, <<e, "<=", "%s">>) /\ Len(ps) >= 1 ->
              Matched(Cond("le", e, <<ps[1]>>), 3, 1)
        [] e \in NumericExprs /\ Starts(toks, <<e, "BETWEEN", "%s", "AND", "%s">>)
                /\ Len(ps) >= 2 ->
              Matched(Cond("between", e, <<ps[1], ps[2]>>), 5, 2)
        [] e \in NumericExprs \cup TextColumns /\ Starts(toks, <<e, "IS NOT NULL">>) ->
              Matched(Cond("notnull", e, <<>>), 2, 0)
        [] e \in TextColumns /\ Starts(toks, <<e, "= ANY(", "%s", ")">>) /\ Len(ps) >= 1 ->
              Matched(Cond("any", e, <<ps[1]>>), 4, 1)
        [] Starts(toks, <<districts_exists, "WHERE", "d = ANY(", "%s", "))">>)
                /\ Len(ps) >= 1 ->
              Matched(Cond("exists_any", "districts", <<ps[1]>>), 5, 1)
        [] OTHER -> NoMatch

ParseError == [ok |-> FALSE, conds |-> <<>>, ps |-> <<>>]

RECURSIVE ParseConds(_, _)
ParseConds(toks, ps) ==
    LET m == MatchCond(toks, ps) IN
    IF ~m.ok THEN ParseError
    ELSE LET rest == SubSeq(toks, m.ntoks + 1, Len(toks))
             restps == SubSeq(ps, m.nparams + 1, Len(ps))
         IN IF rest = <<>> THEN [ok |-> TRUE, conds |-> <<m.cond>>, ps |-> restps]
            ELSE IF Head(rest) = "AND"
            THEN LET r == ParseConds(Tail(rest), restps)
                 IN IF r.ok THEN [r EXCEPT !.conds = <<m.cond>> \o r.conds] ELSE r
            ELSE ParseError

\* the conditions of a WHERE text; the empty text has none
ParseWhere(toks, ps) ==
    IF toks = <<>> THEN [ok |-> TRUE, conds |-> <<>>, ps |-> ps]
    ELSE IF Head(toks) = "WHERE" THEN ParseConds(Tail(toks), ps)
    ELSE ParseError

\* a parameter the server accepts where a number is expected (NULL compares to NULL);
\* a str parameter here is a non-numeric text, which the server rejects
NumericArg(v) == v.t \in {"num", "null"}

\* a parameter the server accepts as a text array
TextArrayArg(v) == v.t = "list" /\ \A i \in DOMAIN v.l : v.l[i].t = "str"

\* the server's type check of a condition's parameters
WellTyped(c) ==
    CASE c.op \in {"ge", "le", "between"} -> \A i \in DOMAIN c.args : NumericArg(c.args[i])
      [] c.op \in {"any", "exists_any"} -> TextArrayArg(c.args[1])
      [] OTHER -> TRUE

\* the elements of a jsonb array column, COALESCE(column, '[]')
Elements(v) == IF v.t = "list" THEN v.l ELSE <<>>

\* a condition is TRUE on a row (NULL and FALSE both reject the row)
Holds(c, row) ==
    LET v == ExprValue(c.expr, row) IN
    CASE c.op = "ge" -> ~IsNull(v) /\ ~IsNull(c.args[1]) /\ v.n >= c.args[1].n
      [] c.op = "le" -> ~IsNull(v) /\ ~IsNull(c.args[1]) /\ v.n <= c.args[1].n
      [] c.op = "between" ->
            /\ ~IsNull(v) /\ ~IsNull(c.args[1]) /\ ~IsNull(c.args[2])
            /\ c.args[1].n <= v.n /\ v.n <= c.args[2].n
      [] c.op = "notnull" -> ~IsNull(v)
      [] c.op = "any" -> ~IsNull(v) /\ v \in Range(c.args[1].l)
      [] c.op = "exists_any" ->
            \E d \in Range(Elements(row.districts)) : d \in Range(c.args[1].l)
      [] OTHER -> FALSE

\* the hemnet_ids of the rows a parsed WHERE keeps
Matching(conds, data) ==
    {id \in DOMAIN data : \A i \in DOMAIN conds : Holds(conds[i], data[id])}

(***************************************************************************)
(* The statements search_estimate executes.  Each result is either         *)
(* [ok |-> TRUE, ...] or DbError, the exception psycopg2 raises.           *)
(***************************************************************************)
DbError == [ok |-> FALSE]

Min(a, b) == IF a <= b THEN a ELSE b

Max(a, b) == IF a >= b THEN a ELSE b

\* the WHERE text parses, is well typed and leaves exactly `extra` parameters unbound
Accepted(p, extra) ==
    /\ p.ok
    /\ Len(p.ps) = extra
    /\ \A i \in DOMAIN p.conds : WellTyped(p.conds[i])

\* SELECT COUNT(*) FROM hemnet_items {where};
ExecCount(where, ps, data) ==
    LET p == ParseWhere(where, ps) IN
    IF Accepted(p, 0)
    THEN [ok |-> TRUE, count |-> Cardinality(Matching(p.conds, data))]
    ELSE DbError

\* "hemnet_id, <column> AS tag"
ScalarSelect(column) == "hemnet_id, " \o column \o " AS tag"

districts_select ==
    "hemnet_id, jsonb_array_elements_text(COALESCE(districts, '[]'::jsonb)) AS tag"

labels_select == "hemnet_id, COALESCE(elem->>'text', elem->>'title', elem::text) AS tag"

labels_from ==
    "hemnet_items, LATERAL jsonb_array_elements(COALESCE(labels, '[]'::jsonb)) AS elem"

amenities_select == "hemnet_id, COALESCE(elem->>'title', elem->>'text', elem::text) AS tag"

amenities_from ==
    "hemnet_items, LATERAL jsonb_array_elements(COALESCE(relevant_amenities, '[]'::jsonb)) AS elem"

_tag_query(field) ==
    CASE field = "districts" -> <<districts_select, "hemnet_items">>
      [] field = "labels" -> <<labels_select, labels_from>>
      [] field = "relevant_amenities" -> <<amenities_select, amenities_from>>
      [] field = "housing_form" -> <<"hemnet_id, housing_form AS tag", "hemnet_items">>
      [] field = "tenure" -> <<"hemnet_id, tenure AS tag", "hemnet_items">>
      [] field = "municipality_name" ->
            <<"hemnet_id, municipality_name AS tag", "hemnet_items">>
      [] field = "region_name" -> <<"hemnet_id, region_name AS tag", "hemnet_items">>
      [] field = "county_name" -> <<"hemnet_id, county_name AS tag", "hemnet_items">>
      [] field = "type" -> <<"hemnet_id, type AS tag", "hemnet_items">>
      [] OTHER -> <<"", "">>

\* elem::text of an array element that has neither key
ElemText == Str("{}")

\* COALESCE(elem->>first, elem->>second, elem::text); an Obj holds <<text, title>>
ElemTag(elem, first, second) ==
    IF elem.t # "obj" THEN ElemText
    ELSE IF ~IsNull(elem.l[first]) THEN elem.l[first]
    ELSE IF ~IsNull(elem.l[second]) THEN elem.l[second]
    ELSE ElemText

\* the tag values the subquery (SELECT {select_sql} FROM {from_sql}) yields for a row
TagValues(select_sql, from_sql, row) ==
    CASE select_sql = districts_select -> Range(Elements(row.districts))
      [] select_sql = labels_select /\ from_sql = labels_from ->
            {ElemTag(e, 1, 2) : e \in Range(Elements(row.labels))}
      [] select_sql = amenities_select /\ from_sql = amenities_from ->
            {ElemTag(e, 2, 1) : e \in Range(Elements(row.relevant_amenities))}
      [] OTHER ->
            LET cols == {c \in TextColumns : select_sql = ScalarSelect(c)}
            IN {ExprValue(c, row) : c \in cols}

\* WHERE tag IS NOT NULL AND tag <> '' GROUP BY tag, COUNT(DISTINCT hemnet_id)
TagCounts(select_sql, from_sql, ids, data) ==
    LET tags == {t \in UNION {TagValues(select_sql, from_sql, data[id]) : id \in ids} :
                    ~IsNull(t) /\ t.s # ""}
    IN [t \in tags |->
          Cardinality({id \in ids : t \in TagValues(select_sql, from_sql, data[id])})]

\* a variant without the ORDER BY: any n groups
KeptSets_unordered(counts, limit) ==
    LET n == Min(limit, Cardinality(DOMAIN counts))
    IN {K \in SUBSET DOMAIN counts : Cardinality(K) = n}

\* ORDER BY count DESC LIMIT n: which groups survive when equal counts straddle the
\* cut is unspecified, so every admissible selection is a possible result
KeptSets(counts, limit) ==
    LET n == Min(limit, Cardinality(DOMAIN counts))
    IN {K \in SUBSET DOMAIN counts :
          /\ Cardinality(K) = n
          /\ \A a \in K, b \in (DOMAIN counts) \ K : counts[a] >= counts[b]}

\* the kept groups by count descending (groups of equal count in one fixed order)
RECURSIVE OrderByCountDesc(_, _)
OrderByCountDesc(K, counts) ==
    IF K = {} THEN <<>>
    ELSE LET t == CHOOSE x \in K : \A u \in K : counts[x] >= counts[u]
         IN <<[tag |-> t.s, count |-> counts[t]]>> \o OrderByCountDesc(K \ {t}, counts)

\* the tag statements: `where` is empty for overall_sql and where_sql for filtered_sql;
\* the last parameter binds LIMIT %s
ExecTags(select_sql, from_sql, where, ps, data) ==
    LET p == ParseWhere(where, ps) IN
    IF Accepted(p, 1) /\ p.ps[1].t = "num" /\ p.ps[1].n >= 0
    THEN LET counts == TagCounts(select_sql, from_sql, Matching(p.conds, data), data)
         IN [ok |-> TRUE,
             results |-> {OrderByCountDesc(K, counts) : K \in KeptSets(counts, p.ps[1].n)}]
    ELSE DbError

\* the non-null values of expr over the given rows, ascending
RECURSIVE SortedValues(_, _, _)
SortedValues(expr, ids, data) ==
    LET live == {id \in ids : ~IsNull(ExprValue(expr, data[id]))} IN
    IF live = {} THEN <<>>
    ELSE LET m == CHOOSE x \in live :
                    \A y \in live : ExprValue(expr, data[x]).n <= ExprValue(expr, data[y]).n
         IN <<ExprValue(expr, data[m]).n>> \o SortedValues(expr, live \ {m}, data)

RECURSIVE Sum(_)
Sum(xs) == IF xs = <<>> THEN 0 ELSE Head(xs) + Sum(Tail(xs))

\* a fraction; AVG and PERCENTILE_CONT are kept exact
Frac(num, den) == [num |-> num, den |-> den]

\* PERCENTILE_CONT(tenths / 10) WITHIN GROUP (ORDER BY value): linear interpolation
\* at row number 1 + tenths * (n - 1) / 10
PercentileCont(tenths, xs) ==
    LET pos == tenths * (Len(xs) - 1)
        lo == 1 + pos \div 10
        part == pos % 10
        hi == IF part > 0 THEN lo + 1 ELSE lo
    IN Frac(10 * xs[lo] + part * (xs[hi] - xs[lo]), 10)

NoFrac == Frac(0, 0)

\* stats_sql: the aggregates over the non-null values of expr in the filtered rows
ExecStats(expr, where, ps, data) ==
    LET p == ParseWhere(where, ps) IN
    IF Accepted(p, 0)
    THEN LET xs == SortedValues(expr, Matching(p.conds, data), data)
         IN [ok |-> TRUE,
             stats |-> IF xs = <<>>
                       THEN [count |-> 0, min |-> Null, max |-> Null, avg |-> NoFrac,
                             p50 |-> NoFrac, p90 |-> NoFrac]
                       ELSE [count |-> Len(xs), min |-> Num(xs[1]), max |-> Num(xs[Len(xs)]),
                             avg |-> Frac(Sum(xs), Len(xs)),
                             p50 |-> PercentileCont(5, xs), p90 |-> PercentileCont(9, xs)]]
    ELSE DbError

\* width_bucket(value, low, high, count) for low < high
width_bucket(value, low, high, count) ==
    IF value < low THEN 0
    ELSE IF value >= high THEN count + 1
    ELSE ((value - low) * count) \div (high - low) + 1

\* GROUP BY bucket ORDER BY bucket
RECURSIVE Buckets(_, _)
Buckets(bs, from) ==
    IF \A i \in DOMAIN bs : bs[i] < from THEN <<>>
    ELSE LET n == Cardinality({i \in DOMAIN bs : bs[i] = from})
         IN (IF n > 0 THEN <<[bucket |-> from, count |-> n]>> ELSE <<>>)
                \o Buckets(bs, from + 1)

\* hist_sql: `where` is the text between FROM hemnet_items and the closing bracket of
\* the data CTE; the last parameter binds the bucket count of width_bucket
ExecHist(expr, where, ps, data) ==
    LET p == ParseWhere(where, ps) IN
    IF Accepted(p, 1) /\ p.ps[1].t = "num" /\ p.ps[1].n > 0
    THEN LET xs == SortedValues(expr, Matching(p.conds, data), data)
         IN IF xs = <<>> THEN [ok |-> TRUE, rows |-> <<>>]
            ELSE IF xs[1] = xs[Len(xs)] THEN DbError
            ELSE [ok |-> TRUE,
                  rows |-> Buckets([i \in DOMAIN xs |->
                                      width_bucket(xs[i], xs[1], xs[Len(xs)], p.ps[1].n)], 0)]
    ELSE DbError

(***************************************************************************)
(* Rows the table is populated from, and the requests made.                *)
(***************************************************************************)
NRows == 2

Year(a, b, c, d) == Text(<<a, b, c, d>>)

RowTemplates ==
    << Row(Num(3), Num(2), Num(2), Num(4), Num(1), Year("2", "0", "0", "5"),
           Str("Apartment"), Str("Condo"), Str("Stockholm"), Str("R1"), Str("C1"),
           Str("T1"), List(<<Str("Soder"), Str("Vasastan")>>),
           List(<<Obj(Str("New"), Null)>>),
           List(<<Obj(Null, Str("Balcony")), Obj(Str("Lift"), Str("Elevator"))>>),
           Num(2), Num(2), Str("A street 1")),
       Row(Null, Num(5), Num(3), Num(6), Null, Text(<<"a", "b", "c">>),
           Str("House"), Null, Str("Stockholm"), Str("R1"), Str("C1"),
           Str("T1"), List(<<Str("Soder")>>), Null, List(<<>>),
           Null, Null, Str("B street 2")),
       Row(Num(1), Null, Null, Num(4), Num(1), Year("1", "9", "9", "9"),
           Str("Apartment"), Str("Rental"), Str("Uppsala"), Str("R2"), Str("C2"),
           Str("T2"), List(<<Str("Gamla"), Str("Ostermalm"), Str("City")>>),
           List(<<Obj(Null, Null)>>), Null,
           Num(7), Num(2), Null),
       Row(Null, Null, Num(2), Null, Num(0), Null,
           Null, Str("Condo"), Str(""), Null, Null,
           Null, List(<<Str("Vasastan"), Str("Kungsholmen"), Str("Norrmalm"), Str("City")>>),
           List(<<Obj(Str("New"), Str("Hot"))>>), List(<<Obj(Null, Str("Balcony"))>>),
           Null, Null, Str("D street 4")) >>

\* the tables of at most NRows rows; hemnet_ids are handed out in template order
Datasets ==
    UNION {{[i \in 1..n |-> RowTemplates[pick[i]]] :
              pick \in {f \in [1..n -> DOMAIN RowTemplates] :
                          \A i \in 1..n, j \in 1..n : i <= j => f[i] <= f[j]}} :
           n \in 0..NRows}

\* what the geocoding service answers for an address
GeoPoints == {[lat |-> 2, lng |-> 2]}

HardFilterInputs ==
    { <<>>,
      ("min_price" :> Num(2)) @@ ("max_price" :> Num(5)),
      ("min_price" :> Num(0)),
      ("max_price" :> Null) @@ ("sort" :> Str("price")),
      ("municipalities" :> List(<<>>)) @@ ("tenure" :> Str("Condo")),
      ("municipalities" :> List(<<Str("Stockholm")>>)),
      ("districts" :> List(<<Str("Soder"), Str("City")>>)),
      ("bbox" :> List(<<Num(0), Num(0), Num(5), Num(9)>>)),
      ("bbox" :> List(<<Num(0), Str("x"), Num(5), Num(9)>>)) @@ ("max_rooms" :> Num(2)),
      ("housing_forms" :> List(<<Str("Apartment")>>)) @@ ("housing_form" :> List(<<Str("House")>>)),
      ("min_price" :> Str("abc")) @@ ("max_rooms" :> Num(2)),
      ("bbox" :> List(<<Num(0), Num(0), Num(5)>>)) @@ ("max_rooms" :> Num(2)),
      ("min_year" :> Num(2000)),
      ("max_monthly_fee" :> Num(1)) @@ ("min_monthly_fee" :> Num(1)) }

SoftPrefInputs ==
    { <<>>,
      ("max_rooms" :> Num(2)),
      ("districts" :> List(<<Str("Vasastan")>>)),
      ("sort" :> Str("price")),
      ("min_price" :> Num(9)) }

TagFieldInputs ==
    { <<>>, <<"municipality_name">>, <<"labels", "bogus", "relevant_amenities">> }

NumericFieldInputs == { <<>>, <<"bogus">>, <<"year", "bogus", "area">> }

BinsInputs == {8, 2, 25}

TagLimitInputs == {15, 1, 60}

(***************************************************************************)
(* attributes_list                                                         *)
(***************************************************************************)
\* the hard_filters dict of attributes_list, in insertion order
hard_filter_catalog ==
    << <<"min_price", "numeric">>, <<"max_price", "numeric">>,
       <<"min_rooms", "numeric">>, <<"max_rooms", "numeric">>,
       <<"min_area", "numeric">>, <<"max_area", "numeric">>,
       <<"min_year", "numeric">>, <<"max_year", "numeric">>,
       <<"min_monthly_fee", "numeric">>, <<"max_monthly_fee", "numeric">>,
       <<"housing_forms", "list">>, <<"housing_form", "list">>, <<"tenure", "list">>,
       <<"municipalities", "list">>, <<"regions", "list">>, <<"counties", "list">>,
       <<"types", "list">>, <<"districts", "list">>,
       <<"bbox", "bbox[min_lng,min_lat,max_lng,max_lat]">> >>

CatalogKeys == {hard_filter_catalog[i][1] : i \in DOMAIN hard_filter_catalog}

KeyType(key) ==
    IF key \in CatalogKeys
    THEN hard_filter_catalog[CHOOSE i \in DOMAIN hard_filter_catalog :
                                hard_filter_catalog[i][1] = key][2]
    ELSE "unknown"

\* what attributes_list advertises next to its hard_filters dict
advertised_tag_fields ==
    <<"housing_form", "tenure", "municipality_name", "region_name", "county_name",
      "districts", "type", "labels", "relevant_amenities">>

advertised_numeric_fields ==
    <<"price", "asked_price", "rooms", "square_meters", "monthly_fee", "year">>

\* the three advertised catalogs as attributes_list returns them (the fourth entry,
\* the column names read from information_schema, is no part of the catalog)
attributes_list ==
    [hard_filters |-> hard_filter_catalog,
     tag_fields |-> advertised_tag_fields,
     numeric_fields |-> advertised_numeric_fields]

Request(hard_filters, soft_prefs, tag_fields, numeric_fields, bins, tag_limit) ==
    [hard_filters |-> hard_filters, soft_prefs |-> soft_prefs, tag_fields |-> tag_fields,
     numeric_fields |-> numeric_fields, bins |-> bins, tag_limit |-> tag_limit]

\* a value of the advertised type for each advertised hard-filter key
valid_value(key) ==
    CASE KeyType(key) = "numeric" -> Num(2)
      [] KeyType(key) = "list" ->
            List(<<Str("Apartment"), Str("Condo"), Str("Stockholm"), Str("R1"), Str("C1"),
                   Str("T1"), Str("Soder")>>)
      [] OTHER -> List(<<Num(0), Num(0), Num(5), Num(9)>>)

\* one FilterSpec per advertised key
CatalogFilterInputs == {(k :> valid_value(k)) : k \in CatalogKeys}

\* a call that asks for everything attributes_list advertises
CatalogRequest ==
    Request(<<>>, <<>>, attributes_list.tag_fields, attributes_list.numeric_fields, 8, 15)

\* the calls made: every hard filter with every soft preference, every hard filter
\* with all other arguments left at their defaults, every hard filter with the
\* tag arguments and the numeric arguments varied, one call with both bins and
\* tag_limit out of range, one call per advertised hard-filter key and one call
\* for all advertised fields
Requests ==
    {Request(h, s, <<"municipality_name">>, <<"bogus">>, 8, 15) :
        h \in HardFilterInputs, s \in SoftPrefInputs}
    \cup {Request(h, <<>>, <<>>, <<>>, 8, 15) : h \in HardFilterInputs}
    \cup {Request(h, <<>>, t, <<"bogus">>, 8, l) :
            h \in HardFilterInputs, t \in TagFieldInputs, l \in TagLimitInputs}
    \cup {Request(h, <<>>, <<"municipality_name">>, n, b, 15) :
            h \in HardFilterInputs, n \in NumericFieldInputs, b \in BinsInputs}
    \cup {Request(<<>>, <<>>, <<>>, <<>>, 25, 1)}
    \cup {Request(h, <<>>, <<>>, <<>>, 8, 15) : h \in CatalogFilterInputs}
    \cup {CatalogRequest}

NoRequest == Request(<<>>, <<>>, <<>>, <<>>, 0, 0)

(***************************************************************************)
(* search_estimate, one step per statement executed.                       *)
(***************************************************************************)
VARIABLES
    dataset,          \* hemnet_items: hemnet_id -> row
    pc,               \* where the call in progress stands
    request,          \* the arguments as passed
    tag_fields, numeric_fields, bins, tag_limit,    \* the locals after defaulting / clamping
    where_sql, params,
    filtered_count, total_count,
    idx,              \* position of the running for loop
    overall,          \* the overall observations of the current tag field
    stats,            \* the stats row of the current numeric field
    tag_stats, numeric_stats,
    response,         \* what the caller gets
    filters, compiled, \* a FilterSpec and its compilation (_build_filters on its own)
    search,           \* the listings_search call in progress
    agent,            \* the _run_agent call in progress
    houm_users,       \* the table houm_users: the rows (id, name, name_key)
    houm_favorites,   \* the table houm_favorites: the rows (user_id, hemnet_id)
    http              \* the favorites request last answered

\* the locals of search_estimate, the table it reads and the FilterSpec under edit
estimate_vars ==
    <<dataset, pc, request, tag_fields, numeric_fields, bins, tag_limit, where_sql, params,
      filtered_count, total_count, idx, overall, stats, tag_stats, numeric_stats,
      response, filters, compiled>>

\* the state of the other handlers
other_vars == <<search, agent, houm_users, houm_favorites, http>>

vars == <<estimate_vars, other_vars>>

default_tag_fields ==
    <<"housing_form", "tenure", "municipality_name", "region_name", "districts">>

default_numeric_fields == <<"price", "rooms", "square_meters", "monthly_fee", "year">>

\* a variant whose dict has no entry for asked_price
numeric_map_without_asked_price(field) ==
    CASE field = "price" -> price_expr
      [] field = "rooms" -> "rooms"
      [] field = "square_meters" -> "square_meters"
      [] field = "area" -> "square_meters"
      [] field = "monthly_fee" -> "monthly_fee"
      [] field = "year" -> year_expr
      [] OTHER -> ""

\* numeric_map.get(field); "" stands for None
numeric_map(field) ==
    CASE field = "price" -> price_expr
      [] field = "asked_price" -> "asked_price"
      [] field = "rooms" -> "rooms"
      [] field = "square_meters" -> "square_meters"
      [] field = "area" -> "square_meters"
      [] field = "monthly_fee" -> "monthly_fee"
      [] field = "year" -> year_expr
      [] OTHER -> ""

\* a variant that only applies the lower limit
clamp_bins_unbounded(b) == Max(3, b)

\* bins = max(3, min(bins, 20))
clamp_bins(b) == Max(3, Min(b, 20))

\* tag_limit = max(5, min(tag_limit, 50))
clamp_tag_limit(l) == Max(5, Min(l, 50))

\* row["share"] = (row["count"] / population) if population else 0
share(count, population) == IF population # 0 THEN Frac(count, population) ELSE Frac(0, 1)

with_share(rows, population) ==
    [i \in DOMAIN rows |->
        [tag |-> rows[i].tag, count |-> rows[i].count,
         share |-> share(rows[i].count, population)]]

\* a variant that divides the overall counts by the filtered population
overall_population_filtered == filtered_count

\* the divisor of the overall shares (line 539)
overall_population == total_count

\* a variant that divides the filtered counts by the whole population
filtered_population_total == total_count

\* the divisor of the filtered shares (line 558)
filtered_population == filtered_count

NoStats ==
    [count |-> 0, min |-> Null, max |-> Null, avg |-> NoFrac, p50 |-> NoFrac, p90 |-> NoFrac]

NoResponse == [status |-> "none"]

NoSearch == [pc |-> "idle"]

NoAgent == [pc |-> "idle"]

\* no favorites request has been answered
NoAnswer == [status |-> 0]

\* no other handler is running, and nobody has a favorite yet
Quiet ==
    /\ search = NoSearch
    /\ agent = NoAgent
    /\ houm_users = {}
    /\ houm_favorites = {}
    /\ http = NoAnswer

\* the locals of a call that has not started
Cleared ==
    /\ request = NoRequest
    /\ tag_fields = <<>> /\ numeric_fields = <<>> /\ bins = 0 /\ tag_limit = 0
    /\ where_sql = <<>> /\ params = <<>>
    /\ filtered_count = 0 /\ total_count = 0
    /\ idx = 0 /\ overall = <<>> /\ stats = NoStats
    /\ tag_stats = <<>> /\ numeric_stats = <<>>
    /\ response = NoResponse

Init ==
    /\ dataset \in Datasets
    /\ pc = "idle"
    /\ Cleared
    /\ filters = <<>>
    /\ compiled = _build_filters(<<>>)
    /\ Quiet

\* an exception leaves search_estimate: the caller gets no report, and the
\* traceback names the statement that raised
Raise ==
    /\ pc' = "failed"
    /\ response' = [status |-> "error", error |-> "psycopg2.Error", at |-> pc]

\* the tuple passed with overall_sql: (tag_limit,)
overall_params == <<Num(tag_limit)>>

\* a variant that puts the limit in front of the filter parameters
filtered_params_limit_first == <<Num(tag_limit)>> \o params

\* params + [tag_limit]
filtered_params == params \o <<Num(tag_limit)>>

\* params + [bins]
hist_params == params \o <<Num(bins)>>

\* params + soft_params
combined_params(soft_params) == params \o soft_params

\* lines 498-512: defaults, clamps and the compiled hard filters
Call(req) ==
    /\ pc = "idle"
    /\ request' = req
    /\ tag_fields' = IF req.tag_fields = <<>> THEN default_tag_fields ELSE req.tag_fields
    /\ numeric_fields' =
          IF req.numeric_fields = <<>> THEN default_numeric_fields ELSE req.numeric_fields
    /\ bins' = clamp_bins(req.bins)
    /\ tag_limit' = clamp_tag_limit(req.tag_limit)
    /\ where_sql' = _build_filters(req.hard_filters).sql
    /\ params' = _build_filters(req.hard_filters).params
    /\ pc' = "count_filtered"
    /\ filtered_count' = 0 /\ total_count' = 0 /\ idx' = 0
    /\ overall' = <<>> /\ stats' = NoStats /\ tag_stats' = <<>> /\ numeric_stats' = <<>>
    /\ response' = NoResponse
    /\ UNCHANGED <<dataset, filters, compiled>>
    /\ UNCHANGED other_vars

\* cur.execute(f"SELECT COUNT(*) {base_sql};", params)
CountFiltered ==
    /\ pc = "count_filtered"
    /\ LET r == ExecCount(where_sql, params, dataset) IN
         IF r.ok
         THEN filtered_count' = r.count /\ pc' = "count_total" /\ UNCHANGED response
         ELSE Raise /\ UNCHANGED filtered_count
    /\ UNCHANGED <<dataset, request, tag_fields, numeric_fields, bins, tag_limit, where_sql,
                   params, total_count, idx, overall, stats, tag_stats, numeric_stats,
                   filters, compiled>>
    /\ UNCHANGED other_vars

\* cur.execute("SELECT COUNT(*) FROM hemnet_items;")
CountTotal ==
    /\ pc = "count_total"
    /\ total_count' = ExecCount(<<>>, <<>>, dataset).count
    /\ pc' = "tag_overall"
    /\ idx' = 1
    /\ UNCHANGED <<dataset, request, tag_fields, numeric_fields, bins, tag_limit, where_sql,
                   params, filtered_count, overall, stats, tag_stats, numeric_stats,
                   response, filters, compiled>>
    /\ UNCHANGED other_vars

\* the end of one iteration of `for field in tag_fields`
NextTagField ==
    IF idx < Len(tag_fields)
    THEN pc' = "tag_overall" /\ idx' = idx + 1
    ELSE pc' = "numeric_stats" /\ idx' = 1

\* if not select_sql: continue
TagSkip ==
    /\ pc = "tag_overall"
    /\ _tag_query(tag_fields[idx])[1] = ""
    /\ NextTagField
    /\ UNCHANGED <<dataset, request, tag_fields, numeric_fields, bins, tag_limit, where_sql,
                   params, filtered_count, total_count, overall, stats, tag_stats,
                   numeric_stats, response, filters, compiled>>
    /\ UNCHANGED other_vars

\* cur.execute(overall_sql, (tag_limit,)) and the shares of its rows
TagOverall ==
    /\ pc = "tag_overall"
    /\ _tag_query(tag_fields[idx])[1] # ""
    /\ LET q == _tag_query(tag_fields[idx])
           r == ExecTags(q[1], q[2], <<>>, overall_params, dataset)
       IN IF r.ok
          THEN /\ \E rows \in r.results : overall' = with_share(rows, overall_population)
               /\ pc' = "tag_filtered"
               /\ UNCHANGED response
          ELSE Raise /\ UNCHANGED overall
    /\ UNCHANGED <<dataset, request, tag_fields, numeric_fields, bins, tag_limit, where_sql,
                   params, filtered_count, total_count, idx, stats, tag_stats,
                   numeric_stats, filters, compiled>>
    /\ UNCHANGED other_vars

\* cur.execute(filtered_sql, params + [tag_limit]), the shares, tag_stats[field] = ...
TagFiltered ==
    /\ pc = "tag_filtered"
    /\ LET field == tag_fields[idx]
           q == _tag_query(field)
           r == ExecTags(q[1], q[2], where_sql, filtered_params, dataset)
       IN IF r.ok
          THEN /\ \E rows \in r.results :
                    tag_stats' = (field :> [overall |-> overall,
                                            filtered |-> with_share(rows, filtered_population)])
                                    @@ tag_stats
               /\ NextTagField
               /\ overall' = <<>>
               /\ UNCHANGED response
          ELSE Raise /\ UNCHANGED <<tag_stats, idx, overall>>
    /\ UNCHANGED <<dataset, request, tag_fields, numeric_fields, bins, tag_limit, where_sql,
                   params, filtered_count, total_count, stats, numeric_stats,
                   filters, compiled>>
    /\ UNCHANGED other_vars

\* the end of one iteration of `for field in numeric_fields`
NextNumericField ==
    IF idx < Len(numeric_fields)
    THEN pc' = "numeric_stats" /\ idx' = idx + 1
    ELSE pc' = "soft" /\ idx' = 0

\* a variant in which an unknown field name is an error of the call
NumericUnsupported_raising ==
    /\ pc = "numeric_stats"
    /\ numeric_map(numeric_fields[idx]) = ""
    /\ Raise
    /\ UNCHANGED <<dataset, request, tag_fields, numeric_fields, bins, tag_limit, where_sql,
                   params, filtered_count, total_count, idx, overall, stats, tag_stats,
                   numeric_stats, filters, compiled>>
    /\ UNCHANGED other_vars

\* numeric_stats[field] = {"error": "unsupported_field"}
NumericUnsupported ==
    /\ pc = "numeric_stats"
    /\ numeric_map(numeric_fields[idx]) = ""
    /\ numeric_stats' = (numeric_fields[idx] :> [error |-> "unsupported_field"])
                            @@ numeric_stats
    /\ NextNumericField
    /\ UNCHANGED <<dataset, request, tag_fields, numeric_fields, bins, tag_limit, where_sql,
                   params, filtered_count, total_count, overall, stats, tag_stats,
                   response, filters, compiled>>
    /\ UNCHANGED other_vars

\* numeric_stats[field] = {**stats, "histogram": histogram}
summary(st, histogram) ==
    [count |-> st.count, min |-> st.min, max |-> st.max, avg |-> st.avg,
     p50 |-> st.p50, p90 |-> st.p90, histogram |-> histogram]

\* a variant that lacks the inner `if stats["min"] < stats["max"]`
wants_histogram_nonempty(st) == st.count # 0 /\ ~IsNull(st.min) /\ ~IsNull(st.max)

\* the two nested ifs that guard the histogram statement
wants_histogram(st) ==
    /\ st.count # 0 /\ ~IsNull(st.min) /\ ~IsNull(st.max)
    /\ st.min.n < st.max.n

\* cur.execute(stats_sql, params); without a histogram the field is recorded here
NumericStats ==
    /\ pc = "numeric_stats"
    /\ numeric_map(numeric_fields[idx]) # ""
    /\ LET field == numeric_fields[idx]
           r == ExecStats(numeric_map(field), where_sql, params, dataset)
       IN IF ~r.ok THEN Raise /\ UNCHANGED <<stats, numeric_stats, idx>>
          ELSE IF wants_histogram(r.stats)
          THEN /\ stats' = r.stats
               /\ pc' = "numeric_hist"
               /\ UNCHANGED <<numeric_stats, idx, response>>
          ELSE /\ numeric_stats' = (field :> summary(r.stats, <<>>)) @@ numeric_stats
               /\ NextNumericField
               /\ UNCHANGED <<stats, response>>
    /\ UNCHANGED <<dataset, request, tag_fields, numeric_fields, bins, tag_limit, where_sql,
                   params, filtered_count, total_count, overall, tag_stats,
                   filters, compiled>>
    /\ UNCHANGED other_vars

\* the text between FROM hemnet_items and the bracket that closes the data CTE:
\* {where_sql} WHERE {expr} IS NOT NULL
hist_where(expr, where) == where \o <<"WHERE", expr, "IS NOT NULL">>

\* cur.execute(hist_sql, params + [bins])
NumericHist ==
    /\ pc = "numeric_hist"
    /\ LET field == numeric_fields[idx]
           expr == numeric_map(field)
           r == ExecHist(expr, hist_where(expr, where_sql), hist_params, dataset)
       IN IF r.ok
          THEN /\ numeric_stats' = (field :> summary(stats, r.rows)) @@ numeric_stats
               /\ NextNumericField
               /\ stats' = NoStats
               /\ UNCHANGED response
          ELSE Raise /\ UNCHANGED <<stats, numeric_stats, idx>>
    /\ UNCHANGED <<dataset, request, tag_fields, numeric_fields, bins, tag_limit, where_sql,
                   params, filtered_count, total_count, overall, tag_stats,
                   filters, compiled>>
    /\ UNCHANGED other_vars

\* str.replace("WHERE ", ""): every occurrence goes
RECURSIVE remove_where(_)
remove_where(toks) ==
    IF toks = <<>> THEN <<>>
    ELSE (IF Head(toks) = "WHERE" THEN <<>> ELSE <<Head(toks)>>) \o remove_where(Tail(toks))

\* combined_where of lines 624-631
combined_where(where, soft_where) ==
    LET combined_clauses ==
            (IF where # <<>> THEN <<remove_where(where)>> ELSE <<>>)
                \o (IF soft_where # <<>> THEN <<remove_where(soft_where)>> ELSE <<>>)
    IN IF combined_clauses # <<>> THEN <<"WHERE">> \o JoinAnd(combined_clauses) ELSE <<>>

\* a variant that returns the two counts under each other's name
report_swapped(soft_match_count) ==
    [status |-> "ok",
     total_count |-> filtered_count,
     filtered_count |-> total_count,
     soft_match_count |-> soft_match_count,
     tag_prevalence |-> tag_stats,
     numeric_distributions |-> numeric_stats]

\* the dict search_estimate returns
report(soft_match_count) ==
    [status |-> "ok",
     total_count |-> total_count,
     filtered_count |-> filtered_count,
     soft_match_count |-> soft_match_count,
     tag_prevalence |-> tag_stats,
     numeric_distributions |-> numeric_stats]

\* a variant that counts the rows matching the soft preferences alone
SoftCount_soft_only ==
    /\ pc = "soft"
    /\ LET soft == _build_filters(request.soft_prefs)
           r == ExecCount(soft.sql, soft.params, dataset)
       IN IF DOMAIN request.soft_prefs = {}
          THEN pc' = "done" /\ response' = report(Null)
          ELSE IF r.ok
          THEN pc' = "done" /\ response' = report(Num(r.count))
          ELSE Raise
    /\ UNCHANGED <<dataset, request, tag_fields, numeric_fields, bins, tag_limit, where_sql,
                   params, filtered_count, total_count, idx, overall, stats, tag_stats,
                   numeric_stats, filters, compiled>>
    /\ UNCHANGED other_vars

\* lines 621-646: the soft statement, when soft_prefs is not empty, and the return
SoftCount ==
    /\ pc = "soft"
    /\ LET soft == _build_filters(request.soft_prefs)
           r == ExecCount(combined_where(where_sql, soft.sql), combined_params(soft.params),
                          dataset)
       IN IF DOMAIN request.soft_prefs = {}
          THEN pc' = "done" /\ response' = report(Null)
          ELSE IF r.ok
          THEN pc' = "done" /\ response' = report(Num(r.count))
          ELSE Raise
    /\ UNCHANGED <<dataset, request, tag_fields, numeric_fields, bins, tag_limit, where_sql,
                   params, filtered_count, total_count, idx, overall, stats, tag_stats,
                   numeric_stats, filters, compiled>>
    /\ UNCHANGED other_vars

(***************************************************************************)
(* The texts search_estimate hands to cur.execute, token by token; a %s is *)
(* a token of its own, and so is the word in front of a trailing %s.       *)
(***************************************************************************)
\* f"SELECT COUNT(*) {base_sql};" and "SELECT COUNT(*) FROM hemnet_items;"
count_sql(where) == <<"SELECT COUNT(*) FROM hemnet_items">> \o where

overall_sql(select_sql, from_sql) ==
    <<"SELECT tag, COUNT(DISTINCT hemnet_id) AS count FROM (SELECT", select_sql, "FROM",
      from_sql, ") tags WHERE tag IS NOT NULL AND tag <> '' GROUP BY tag ORDER BY count DESC",
      "LIMIT", "%s">>

filtered_sql(select_sql, from_sql, where) ==
    <<"WITH filtered AS (SELECT hemnet_id FROM hemnet_items">> \o where
        \o <<") SELECT tag, COUNT(DISTINCT hemnet_id) AS count FROM (SELECT", select_sql,
             "FROM", from_sql,
             ") tags JOIN filtered f ON f.hemnet_id = tags.hemnet_id WHERE tag IS NOT NULL AND tag <> '' GROUP BY tag ORDER BY count DESC",
             "LIMIT", "%s">>

stats_sql(expr, where) ==
    <<"SELECT COUNT(*) AS count, MIN(value) AS min, MAX(value) AS max, AVG(value) AS avg, PERCENTILE_CONT(0.5) WITHIN GROUP (ORDER BY value) AS p50, PERCENTILE_CONT(0.9) WITHIN GROUP (ORDER BY value) AS p90 FROM (SELECT",
      expr, "AS value FROM hemnet_items">> \o where \o <<") t WHERE value IS NOT NULL">>

hist_sql(expr, where) ==
    <<"WITH data AS (SELECT", expr, "AS value FROM hemnet_items">> \o hist_where(expr, where)
        \o <<"), bounds AS (SELECT MIN(value) AS min_v, MAX(value) AS max_v FROM data) SELECT",
             "width_bucket(value, bounds.min_v, bounds.max_v,", "%s",
             ") AS bucket, COUNT(*) AS count FROM data, bounds GROUP BY bucket ORDER BY bucket">>

\* f"SELECT COUNT(*) FROM hemnet_items {combined_where};"
soft_sql(where, soft_where) ==
    <<"SELECT COUNT(*) FROM hemnet_items">> \o combined_where(where, soft_where)

NoStatement == [sql |-> <<>>, params |-> <<>>]

\* the text and the parameters of the cur.execute the call in progress makes next
statement ==
    CASE pc = "count_filtered" -> [sql |-> count_sql(where_sql), params |-> params]
      [] pc = "count_total" -> [sql |-> count_sql(<<>>), params |-> <<>>]
      [] pc = "tag_overall" /\ _tag_query(tag_fields[idx])[1] # "" ->
            LET q == _tag_query(tag_fields[idx])
            IN [sql |-> overall_sql(q[1], q[2]), params |-> overall_params]
      [] pc = "tag_filtered" ->
            LET q == _tag_query(tag_fields[idx])
            IN [sql |-> filtered_sql(q[1], q[2], where_sql), params |-> filtered_params]
      [] pc = "numeric_stats" /\ numeric_map(numeric_fields[idx]) # "" ->
            [sql |-> stats_sql(numeric_map(numeric_fields[idx]), where_sql),
             params |-> params]
      [] pc = "numeric_hist" ->
            [sql |-> hist_sql(numeric_map(numeric_fields[idx]), where_sql),
             params |-> hist_params]
      [] pc = "soft" /\ DOMAIN request.soft_prefs # {} ->
            LET soft == _build_filters(request.soft_prefs)
            IN [sql |-> soft_sql(where_sql, soft.sql),
                params |-> combined_params(soft.params)]
      [] OTHER -> NoStatement

(***************************************************************************)
(* geocode_listings.main: one run, committed at its end.                   *)
(***************************************************************************)
\* WHERE (latitude IS NULL OR longitude IS NULL) AND NULLIF(TRIM(COALESCE(address, '')), '') IS NOT NULL
needs_geocoding(row) ==
    /\ IsNull(row.latitude) \/ IsNull(row.longitude)
    /\ ~IsNull(row.address) /\ row.address.s # ""

\* ORDER BY hemnet_id LIMIT %s
first_ids(ids, limit) == {id \in ids : Cardinality({j \in ids : j < id}) < limit}

\* the rows in `geocoded` got status OK and are updated to point; the others are skipped
backfill(data, geocoded, point) ==
    [id \in DOMAIN data |->
        IF id \in geocoded
        THEN [data[id] EXCEPT !.latitude = Num(point.lat), !.longitude = Num(point.lng)]
        ELSE data[id]]

\* the state between two calls: nothing of the last call is kept
Clear ==
    /\ pc' = "idle"
    /\ request' = NoRequest
    /\ tag_fields' = <<>> /\ numeric_fields' = <<>> /\ bins' = 0 /\ tag_limit' = 0
    /\ where_sql' = <<>> /\ params' = <<>>
    /\ filtered_count' = 0 /\ total_count' = 0
    /\ idx' = 0 /\ overall' = <<>> /\ stats' = NoStats
    /\ tag_stats' = <<>> /\ numeric_stats' = <<>>
    /\ response' = NoResponse

\* the caller has taken the report or the exception
Return ==
    /\ pc \in {"done", "failed"}
    /\ Clear
    /\ UNCHANGED <<dataset, filters, compiled>>
    /\ UNCHANGED other_vars

\* a run of the backfill between two calls of search_estimate
Backfill ==
    /\ pc = "idle"
    /\ \E limit \in 1..NRows, point \in GeoPoints :
         \E geocoded \in SUBSET first_ids({id \in DOMAIN dataset : needs_geocoding(dataset[id])}, limit) :
            /\ geocoded # {}
            /\ dataset' = backfill(dataset, geocoded, point)
    /\ UNCHANGED <<pc, request, tag_fields, numeric_fields, bins, tag_limit, where_sql, params,
                   filtered_count, total_count, idx, overall, stats, tag_stats,
                   numeric_stats, response, filters, compiled>>
    /\ UNCHANGED other_vars

\* a run of the backfill whose commit falls between two statements of a call in
\* progress: the call's connection runs at the default isolation level, so each of
\* its statements reads what is committed when it starts
BackfillDuringCall ==
    /\ pc \notin {"idle", "done", "failed"}
    /\ \E limit \in 1..NRows, point \in GeoPoints :
         \E geocoded \in SUBSET first_ids({id \in DOMAIN dataset : needs_geocoding(dataset[id])}, limit) :
            /\ geocoded # {}
            /\ dataset' = backfill(dataset, geocoded, point)
    /\ UNCHANGED <<pc, request, tag_fields, numeric_fields, bins, tag_limit, where_sql, params,
                   filtered_count, total_count, idx, overall, stats, tag_stats,
                   numeric_stats, response, filters, compiled>>
    /\ UNCHANGED other_vars

Next ==
    \/ \E req \in Requests : Call(req)
    \/ CountFiltered
    \/ CountTotal
    \/ TagSkip
    \/ TagOverall
    \/ TagFiltered
    \/ NumericUnsupported
    \/ NumericStats
    \/ NumericHist
    \/ SoftCount
    \/ Return
    \/ Backfill

Spec == Init /\ [][Next]_vars

\* the calls and the backfill running at the same time
NextConc ==
    \/ Next
    \/ BackfillDuringCall

SpecConc == Init /\ [][NextConc]_vars

(***************************************************************************)
(* _build_filters on its own: a FilterSpec is edited one key at a time and *)
(* compiled after every edit.                                              *)
(***************************************************************************)
\* the keys edited: the catalog and one key the compiler does not know
BuildKeys == CatalogKeys \cup {"sort"}

MaxKeys == 2

\* the values a key is given: valid ones of differing content, and dropped ones
BuildValues(key) ==
    CASE KeyType(key) = "numeric" -> {Null, Num(0), Num(3)}
      [] KeyType(key) = "list" ->
            {List(<<>>), List(<<Str("a")>>), List(<<Str("b"), Str("c")>>), Str("a")}
      [] KeyType(key) = "unknown" -> {Str("price")}
      [] OTHER -> {List(<<Num(0), Num(0), Num(5), Num(5)>>),
                   List(<<Num(1), Num(2), Num(3), Num(4)>>),
                   List(<<Num(0), Num(0), Num(5)>>)}

InitBuild ==
    /\ dataset = <<>>
    /\ pc = "idle"
    /\ Cleared
    /\ filters = <<>>
    /\ compiled = _build_filters(<<>>)
    /\ Quiet

\* filters[key] = value, then where_sql, params = _build_filters(filters)
SetKey(key, value) ==
    /\ Cardinality(DOMAIN filters \cup {key}) <= MaxKeys
    /\ Get(filters, key) # value \/ key \notin DOMAIN filters
    /\ filters' = (key :> value) @@ filters
    /\ compiled' = _build_filters(filters')
    /\ UNCHANGED <<dataset, pc, request, tag_fields, numeric_fields, bins, tag_limit,
                   where_sql, params, filtered_count, total_count, idx, overall, stats,
                   tag_stats, numeric_stats, response>>
    /\ UNCHANGED other_vars

\* del filters[key], then where_sql, params = _build_filters(filters)
DropKey(key) ==
    /\ key \in DOMAIN filters
    /\ filters' = [k \in DOMAIN filters \ {key} |-> filters[k]]
    /\ compiled' = _build_filters(filters')
    /\ UNCHANGED <<dataset, pc, request, tag_fields, numeric_fields, bins, tag_limit,
                   where_sql, params, filtered_count, total_count, idx, overall, stats,
                   tag_stats, numeric_stats, response>>
    /\ UNCHANGED other_vars

\* a variant that takes the bounds out of the dict as it reads them (dict.pop)
filters_after_build_popping(fs) ==
    [k \in {x \in DOMAIN fs : KeyType(x) # "numeric"} |-> fs[k]]

\* the caller's dict after _build_filters returns: the function only reads it
\* (`in`, [], .get) and stores into its own clauses and params lists
filters_after_build(fs) == fs

\* where_sql, params = _build_filters(filters), once more on the same dict
Recompile ==
    /\ compiled' = _build_filters(filters)
    /\ filters' = filters_after_build(filters)
    /\ UNCHANGED <<dataset, pc, request, tag_fields, numeric_fields, bins, tag_limit,
                   where_sql, params, filtered_count, total_count, idx, overall, stats,
                   tag_stats, numeric_stats, response>>
    /\ UNCHANGED other_vars

NextBuild ==
    \/ \E key \in BuildKeys : \E value \in BuildValues(key) : SetKey(key, value)
    \/ \E key \in BuildKeys : DropKey(key)
    \/ Recompile

SpecBuild == InitBuild /\ [][NextBuild]_vars

(***************************************************************************)
(* listings_search                                                         *)
(***************************************************************************)
\* limit = max(1, min(limit, 100))
clamp_limit(l) == Max(1, Min(l, 100))

\* the dict order_map
order_map ==
    [price_desc |-> "COALESCE(price, asked_price) DESC NULLS LAST",
     price_asc |-> "COALESCE(price, asked_price) ASC NULLS LAST",
     newest |-> "COALESCE(published_at, collected_at) DESC NULLS LAST",
     oldest |-> "COALESCE(published_at, collected_at) ASC NULLS LAST",
     largest |-> "square_meters DESC NULLS LAST",
     smallest |-> "square_meters ASC NULLS LAST",
     rooms_desc |-> "rooms DESC NULLS LAST",
     rooms_asc |-> "rooms ASC NULLS LAST"]

\* a variant that takes an unknown order_by as the ORDER BY expression itself
order_sql_verbatim(order_by) ==
    IF order_by \in DOMAIN order_map THEN order_map[order_by] ELSE order_by

\* order_map.get(order_by, order_map["price_desc"])
order_sql(order_by) ==
    IF order_by \in DOMAIN order_map THEN order_map[order_by] ELSE order_map["price_desc"]

listings_select ==
    "SELECT hemnet_id, title, address, geographic_area, price, asked_price, rooms, square_meters, monthly_fee, listing_url, latitude, longitude FROM hemnet_items"

\* the text of lines 419-436
listings_sql(where, order) ==
    <<listings_select>> \o where \o <<"ORDER BY", order, "LIMIT", "%s">>

\* a variant that puts the limit in front of the filter parameters
listings_params_limit_first(ps, limit) == <<Num(limit)>> \o ps

\* params.append(limit)
listings_params(ps, limit) == ps \o <<Num(limit)>>

\* hard_filters or {}
or_empty(hard_filters) == IF hard_filters = Null THEN <<>> ELSE hard_filters

\* the text and the parameters listings_search hands to cur.execute
listings_statement(hard_filters, limit, order_by) ==
    LET built == _build_filters(or_empty(hard_filters))
    IN [sql |-> listings_sql(built.sql, order_sql(order_by)),
        params |-> listings_params(built.params, clamp_limit(limit))]

\* the arguments listings_search is called with
LimitInputs == {20, 1, 0, 150}

OrderByInputs == DOMAIN order_map \cup {"price", "rooms DESC; DROP TABLE hemnet_items"}

\* hard_filters as passed: a FilterSpec or None
ListingFilterInputs == HardFilterInputs \cup {Null}

\* the ORDER BY expressions the database is given a meaning for here; the table
\* model carries no published_at / collected_at, so under the two date orders all
\* rows compare equal and come back in any order
order_key(order) ==
    CASE order = "COALESCE(price, asked_price) DESC NULLS LAST" -> [expr |-> price_expr, desc |-> TRUE]
      [] order = "COALESCE(price, asked_price) ASC NULLS LAST" -> [expr |-> price_expr, desc |-> FALSE]
      [] order = "COALESCE(published_at, collected_at) DESC NULLS LAST" -> [expr |-> "date", desc |-> TRUE]
      [] order = "COALESCE(published_at, collected_at) ASC NULLS LAST" -> [expr |-> "date", desc |-> FALSE]
      [] order = "square_meters DESC NULLS LAST" -> [expr |-> "square_meters", desc |-> TRUE]
      [] order = "square_meters ASC NULLS LAST" -> [expr |-> "square_meters", desc |-> FALSE]
      [] order = "rooms DESC NULLS LAST" -> [expr |-> "rooms", desc |-> TRUE]
      [] order = "rooms ASC NULLS LAST" -> [expr |-> "rooms", desc |-> FALSE]
      [] OTHER -> [expr |-> "", desc |-> FALSE]

sort_value(expr, row) == IF expr \in NumericExprs THEN ExprValue(expr, row) ELSE Null

\* row a has to come before row b: NULLS LAST, then the direction
strictly_before(key, a, b) ==
    LET va == sort_value(key.expr, a)
        vb == sort_value(key.expr, b)
    IN IF IsNull(va) THEN FALSE
       ELSE IF IsNull(vb) THEN TRUE
       ELSE IF key.desc THEN va.n > vb.n ELSE va.n < vb.n

\* the orders ORDER BY allows for the rows ids; rows that compare equal come in
\* any order
Orderings(ids, key, data) ==
    {f \in [1..Cardinality(ids) -> ids] :
        /\ \A i \in DOMAIN f, j \in DOMAIN f : i # j => f[i] # f[j]
        /\ \A i \in DOMAIN f, j \in DOMAIN f :
              i < j => ~strictly_before(key, data[f[j]], data[f[i]])}

\* the columns of a returned listing that the table model carries
listing_row(id, row) ==
    [hemnet_id |-> id, address |-> row.address, price |-> row.price,
     asked_price |-> row.asked_price, rooms |-> row.rooms,
     square_meters |-> row.square_meters, monthly_fee |-> row.monthly_fee,
     latitude |-> row.latitude, longitude |-> row.longitude]

\* the listings statement as the database runs it: the text between the select
\* list and ORDER BY is the WHERE, the last parameter binds LIMIT %s
ExecListings(sql, ps, data) ==
    LET n == Len(sql) IN
    IF n < 5 THEN DbError
    ELSE IF \/ sql[1] # listings_select \/ sql[n - 3] # "ORDER BY"
            \/ sql[n - 1] # "LIMIT" \/ sql[n] # "%s"
            \/ order_key(sql[n - 2]).expr = ""
    THEN DbError
    ELSE LET p == ParseWhere(SubSeq(sql, 2, n - 4), ps) IN
         IF Accepted(p, 1) /\ p.ps[1].t = "num" /\ p.ps[1].n >= 0
         THEN LET ids == Matching(p.conds, data)
                  k == Min(p.ps[1].n, Cardinality(ids))
              IN [ok |-> TRUE,
                  results |-> {[i \in 1..k |-> listing_row(f[i], data[f[i]])] :
                                  f \in Orderings(ids, order_key(sql[n - 2]), data)}]
         ELSE DbError

\* lines 405-437: the clamp, the compiled filters, the ORDER BY and the text
ListingsCall(hard_filters, limit, order_by) ==
    /\ search.pc = "idle"
    /\ LET st == listings_statement(hard_filters, limit, order_by)
       IN search' = [pc |-> "execute",
                     request |-> [hard_filters |-> hard_filters, limit |-> limit,
                                  order_by |-> order_by],
                     limit |-> clamp_limit(limit),
                     sql |-> st.sql, params |-> st.params,
                     response |-> NoResponse]
    /\ UNCHANGED <<estimate_vars, agent, houm_users, houm_favorites, http>>

\* lines 438-442: cur.execute(sql, params), fetchall and the returned dict
ListingsExecute ==
    /\ search.pc = "execute"
    /\ LET r == ExecListings(search.sql, search.params, dataset)
       IN IF r.ok
          THEN \E rows \in r.results :
                  search' = [search EXCEPT !.pc = "done",
                                           !.response = [status |-> "ok", count |-> Len(rows),
                                                         listings |-> rows]]
          ELSE search' = [search EXCEPT !.pc = "failed",
                                        !.response = [status |-> "error",
                                                      error |-> "psycopg2.Error"]]
    /\ UNCHANGED <<estimate_vars, agent, houm_users, houm_favorites, http>>

\* the caller has taken the listings or the exception
ListingsReturn ==
    /\ search.pc \in {"done", "failed"}
    /\ search' = NoSearch
    /\ UNCHANGED <<estimate_vars, agent, houm_users, houm_favorites, http>>

NextList ==
    \/ \E hf \in ListingFilterInputs, l \in LimitInputs, o \in OrderByInputs :
          ListingsCall(hf, l, o)
    \/ ListingsExecute
    \/ ListingsReturn

SpecList == Init /\ [][NextList]_vars

(***************************************************************************)
(* _run_agent (app.py; web_server.py has the same body), one step per      *)
(* Runner.run it awaits.                                                   *)
(***************************************************************************)
\* what _scan meets inside a result: a dict, a list or tuple, an object, or something
\* else.  `type` is the text of the type entry or attribute, letter by letter;
\* tool_name and arguments say that the key (attribute) is there; name says that a
\* dict has a truthy name, an object a name attribute; items are the values of a
\* dict or the elements of a list
RunValue(kind, type, tool_name, name, arguments, items) ==
    [kind |-> kind, type |-> type, tool_name |-> tool_name, name |-> name,
     arguments |-> arguments, items |-> items]

None == RunValue("none", <<>>, FALSE, FALSE, FALSE, <<>>)

\* "tool" in item_type
contains_tool(item_type) ==
    \E i \in 1..(Len(item_type) - 3) : SubSeq(item_type, i, i + 3) = <<"t", "o", "o", "l">>

RECURSIVE _scan(_)
_scan(value) ==
    CASE value.kind = "dict" ->
            \/ contains_tool(value.type)
            \/ value.tool_name
            \/ (value.name /\ value.arguments)
            \/ \E i \in DOMAIN value.items : _scan(value.items[i])
      [] value.kind = "list" -> \E i \in DOMAIN value.items : _scan(value.items[i])
      [] value.kind = "object" ->
            \/ contains_tool(value.type)
            \/ (value.name /\ value.arguments)
      [] OTHER -> FALSE

\* getattr(result, attr, None)
getattr(result, attr) == IF attr \in DOMAIN result.attrs THEN result.attrs[attr] ELSE None

_agent_used_tool(result) ==
    \E attr \in {"new_items", "items", "output", "events", "trace"} :
        _scan(getattr(result, attr))

\* prompt + "\n\nIMPORTANT: ..."
forced_prompt(prompt) ==
    prompt \o "\n\nIMPORTANT: You must call at least one MCP tool before answering. If you cannot, reply with: TOOL_UNAVAILABLE."

could_not_access ==
    "I could not access verified tool data. Please try again once the MCP tools are available."

\* result.final_output or ""
final_output_or_empty(result) ==
    IF IsNull(result.final_output) THEN "" ELSE result.final_output.s

RunResult(attrs, final_output) == [attrs |-> attrs, final_output |-> final_output]

tool_call_item == <<"t", "o", "o", "l", "_", "c", "a", "l", "l", "_", "i", "t", "e", "m">>

message_output_item ==
    <<"m", "e", "s", "s", "a", "g", "e", "_", "o", "u", "t", "p", "u", "t", "_", "i", "t", "e", "m">>

\* the results a run of the agent can come back with
ResultInputs ==
    { RunResult("new_items" :> RunValue("list", <<>>, FALSE, FALSE, FALSE,
                    << RunValue("object", message_output_item, FALSE, FALSE, FALSE, <<>>) >>),
                Str("Three flats match.")),
      RunResult("new_items" :> RunValue("list", <<>>, FALSE, FALSE, FALSE,
                    << RunValue("object", tool_call_item, FALSE, FALSE, FALSE, <<>>),
                       RunValue("object", message_output_item, FALSE, FALSE, FALSE, <<>>) >>),
                Str("Two flats match.")),
      RunResult("output" :> RunValue("list", <<>>, FALSE, FALSE, FALSE,
                    << RunValue("dict", <<"m", "s", "g">>, FALSE, FALSE, FALSE,
                          << RunValue("dict", <<>>, FALSE, TRUE, TRUE, <<>>) >>) >>),
                Null),
      RunResult("trace" :> RunValue("dict", <<>>, FALSE, TRUE, FALSE,
                    << RunValue("object", <<>>, FALSE, TRUE, FALSE, <<>>) >>),
                Str("TOOL_UNAVAILABLE")),
      RunResult(<<>>, Null) }

\* how one await of Runner.run ends: with a result, with a TypeError (the installed
\* Runner.run does not take the keyword arguments, or the run raised one), or with
\* another exception
RunOutcomes ==
    {[kind |-> "result", result |-> r] : r \in ResultInputs}
        \cup {[kind |-> "TypeError", result |-> RunResult(<<>>, Null)],
              [kind |-> "error", result |-> RunResult(<<>>, Null)]}

PromptInputs == {"Find flats in Soder", ""}

\* the keyword arguments of the three Runner.run calls of each try ladder
run_kwargs ==
    << {"tool_choice", "mcp_servers"}, {"mcp_servers"}, {} >>

\* lines 206-224: the MCP server is started and the Agent is built, without
\* mcp_servers when the constructor does not take it
AgentCall(prompt) ==
    /\ agent.pc = "idle"
    /\ \E takes_mcp_servers \in BOOLEAN :
          agent' = [pc |-> "first", prompt |-> prompt, mcp_servers |-> takes_mcp_servers,
                    rung |-> 1, runs |-> <<>>, reply |-> ""]
    /\ UNCHANGED <<estimate_vars, search, houm_users, houm_favorites, http>>

\* one Runner.run as it is recorded in agent.runs
run_entry(prompt, rung, out) ==
    [prompt |-> prompt, kwargs |-> run_kwargs[rung], kind |-> out.kind, result |-> out.result]

\* a TypeError on the first or second rung moves on to the next rung; on the third
\* rung, and any other exception, leaves _run_agent
after_exception(out, entry) ==
    IF out.kind = "TypeError" /\ agent.rung < 3
    THEN [agent EXCEPT !.rung = @ + 1, !.runs = Append(@, entry)]
    ELSE [agent EXCEPT !.pc = "raised", !.runs = Append(@, entry)]

\* lines 225-237: Runner.run on the prompt; a result that shows tool use is returned
RunOriginal ==
    /\ agent.pc = "first"
    /\ \E out \in RunOutcomes :
          LET entry == run_entry(agent.prompt, agent.rung, out) IN
          IF out.kind # "result" THEN agent' = after_exception(out, entry)
          ELSE IF _agent_used_tool(out.result)
          THEN agent' = [agent EXCEPT !.pc = "returned", !.runs = Append(@, entry),
                                      !.reply = final_output_or_empty(out.result)]
          ELSE agent' = [agent EXCEPT !.pc = "second", !.rung = 1,
                                      !.runs = Append(@, entry)]
    /\ UNCHANGED <<estimate_vars, search, houm_users, houm_favorites, http>>

\* a variant that lacks the second `if not _agent_used_tool(result)`
RunForced_unchecked ==
    /\ agent.pc = "second"
    /\ \E out \in RunOutcomes :
          LET entry == run_entry(forced_prompt(agent.prompt), agent.rung, out) IN
          IF out.kind # "result" THEN agent' = after_exception(out, entry)
          ELSE agent' = [agent EXCEPT !.pc = "returned", !.runs = Append(@, entry),
                                      !.reply = final_output_or_empty(out.result)]
    /\ UNCHANGED <<estimate_vars, search, houm_users, houm_favorites, http>>

\* lines 238-264: Runner.run on forced_prompt, then the result's final output or
\* the fixed message
RunForced ==
    /\ agent.pc = "second"
    /\ \E out \in RunOutcomes :
          LET entry == run_entry(forced_prompt(agent.prompt), agent.rung, out) IN
          IF out.kind # "result" THEN agent' = after_exception(out, entry)
          ELSE agent' = [agent EXCEPT !.pc = "returned", !.runs = Append(@, entry),
                                      !.reply = IF _agent_used_tool(out.result)
                                                THEN final_output_or_empty(out.result)
                                                ELSE could_not_access]
    /\ UNCHANGED <<estimate_vars, search, houm_users, houm_favorites, http>>

\* the caller has taken the reply or the exception
AgentReturn ==
    /\ agent.pc \in {"returned", "raised"}
    /\ agent' = NoAgent
    /\ UNCHANGED <<estimate_vars, search, houm_users, houm_favorites, http>>

NextAgent ==
    \/ \E prompt \in PromptInputs : AgentCall(prompt)
    \/ RunOriginal
    \/ RunForced
    \/ AgentReturn

\* no table is read: the call starts with nothing else in progress
InitAgent == InitBuild

SpecAgent == InitAgent /\ [][NextAgent]_vars

(***************************************************************************)
(* favorites_add and favorites_remove (app.py; web_server.py has the same  *)
(* handlers), each one transaction.  A name is a Text, letter by letter.   *)
(***************************************************************************)
Whitespace == {" ", "\t"}

\* str.strip()
RECURSIVE strip(_)
strip(cs) ==
    IF cs = <<>> THEN <<>>
    ELSE IF Head(cs) \in Whitespace THEN strip(Tail(cs))
    ELSE IF cs[Len(cs)] \in Whitespace THEN strip(SubSeq(cs, 1, Len(cs) - 1))
    ELSE cs

\* str.casefold() over the letters in use
casefold(cs) ==
    [i \in DOMAIN cs |-> CASE cs[i] = "A" -> "a" [] cs[i] = "B" -> "b" [] OTHER -> cs[i]]

NoName == [display_name |-> Null, name_key |-> Null]

\* a variant that keys the user by the trimmed name as typed
_normalize_name_as_typed(value) ==
    IF value.t # "text" THEN NoName
    ELSE IF strip(value.l) = <<>> THEN NoName
    ELSE [display_name |-> Text(strip(value.l)), name_key |-> Text(strip(value.l))]

_normalize_name(value) ==
    IF value.t # "text" THEN NoName
    ELSE IF strip(value.l) = <<>> THEN NoName
    ELSE [display_name |-> Text(strip(value.l)), name_key |-> Text(casefold(strip(value.l)))]

\* int() of a text of digits
RECURSIVE decimal(_)
decimal(cs) ==
    IF cs = <<>> THEN 0 ELSE 10 * decimal(SubSeq(cs, 1, Len(cs) - 1)) + DigitValue(cs[Len(cs)])

\* the hemnet_id after `if not isinstance(hemnet_id, int): hemnet_id = int(hemnet_id)`;
\* Null stands for the exception
to_hemnet_id(value) ==
    IF value.t = "num" THEN value
    ELSE IF value.t = "text" /\ strip(value.l) # <<>>
            /\ \A i \in DOMAIN strip(value.l) : IsDigit(strip(value.l)[i])
    THEN Num(decimal(strip(value.l)))
    ELSE Null

\* payload.get("name", "") and payload.get("hemnet_id") of the requests made
NameInputs ==
    { Text(<<" ", "A", "b">>), Text(<<"a", "B", " ">>), Text(<<"A", "B">>), Text(<<"b">>),
      Text(<<" ", "\t">>), Null }

HemnetIdInputs == { Num(1), Num(2), Text(<<"2">>), Text(<<"x">>), Null }

\* SELECT id FROM houm_users WHERE name_key = %s LIMIT 1  (name_key is unique: it is
\* the conflict target of the INSERT)
user_rows(name_key) == {u \in houm_users : u.name_key = name_key}

\* INSERT INTO houm_users (name, name_key) ... ON CONFLICT (name_key) DO UPDATE SET
\* name = EXCLUDED.name ... RETURNING id; a new row gets an id no row has
upsert_user(display_name, name_key) ==
    IF user_rows(name_key) = {}
    THEN houm_users \cup {[id |-> Cardinality(houm_users) + 1, name |-> display_name,
                           name_key |-> name_key]}
    ELSE {IF u.name_key = name_key THEN [u EXCEPT !.name = display_name] ELSE u :
             u \in houm_users}

\* INSERT INTO houm_favorites (user_id, hemnet_id) ... ON CONFLICT DO NOTHING: the
\* pair (user_id, hemnet_id) is the key of the table, a pair already there stays as
\* it is
insert_favorite(user_id, hemnet_id) ==
    houm_favorites \cup {[user_id |-> user_id, hemnet_id |-> hemnet_id]}

\* DELETE FROM houm_favorites WHERE user_id = %s AND hemnet_id = %s
delete_favorite(user_id, hemnet_id) ==
    houm_favorites \ {[user_id |-> user_id, hemnet_id |-> hemnet_id]}

\* _fetch_favorites: the hemnet_ids of the user's rows in `favorites`, in whatever
\* order the database returns them
_fetch_favorites(favorites, user_id) ==
    LET rows == {f \in favorites : f.user_id = user_id}
    IN {[i \in DOMAIN order |-> order[i].hemnet_id] :
           order \in {f \in [1..Cardinality(rows) -> rows] :
                        \A i \in DOMAIN f, j \in DOMAIN f : i # j => f[i] # f[j]}}

\* what the client is sent
Answer(op, name, hemnet_id, status, detail, display_name, favorites) ==
    [op |-> op, name |-> name, hemnet_id |-> hemnet_id, status |-> status,
     detail |-> detail, display_name |-> display_name, favorites |-> favorites]

\* the two 400 answers both handlers start with, when one applies
bad_request(op, name, hemnet_id) ==
    IF IsNull(_normalize_name(name).display_name)
    THEN <<Answer(op, name, hemnet_id, 400, "missing_name", Null, <<>>)>>
    ELSE IF IsNull(to_hemnet_id(hemnet_id))
    THEN <<Answer(op, name, hemnet_id, 400, "invalid_hemnet_id", Null, <<>>)>>
    ELSE <<>>

favorites_add(name, hemnet_id) ==
    /\ IF bad_request("add", name, hemnet_id) # <<>>
       THEN /\ http' = bad_request("add", name, hemnet_id)[1]
            /\ UNCHANGED <<houm_users, houm_favorites>>
       ELSE LET n == _normalize_name(name)
                id == to_hemnet_id(hemnet_id).n
            IN /\ houm_users' = upsert_user(n.display_name, n.name_key)
               /\ \E u \in houm_users' :
                     /\ u.name_key = n.name_key
                     /\ houm_favorites' = insert_favorite(u.id, id)
                     /\ \E favorites \in _fetch_favorites(houm_favorites', u.id) :
                           http' = Answer("add", name, hemnet_id, 200, "", n.display_name,
                                          favorites)
    /\ UNCHANGED <<estimate_vars, search, agent>>

favorites_remove(name, hemnet_id) ==
    /\ IF bad_request("remove", name, hemnet_id) # <<>>
       THEN /\ http' = bad_request("remove", name, hemnet_id)[1]
            /\ UNCHANGED <<houm_users, houm_favorites>>
       ELSE LET n == _normalize_name(name)
                id == to_hemnet_id(hemnet_id).n
            IN IF user_rows(n.name_key) = {}
               THEN /\ http' = Answer("remove", name, hemnet_id, 404, "not_found", Null, <<>>)
                    /\ UNCHANGED <<houm_users, houm_favorites>>
               ELSE \E u \in user_rows(n.name_key) :
                       /\ houm_favorites' = delete_favorite(u.id, id)
                       /\ \E favorites \in _fetch_favorites(houm_favorites', u.id) :
                             http' = Answer("remove", name, hemnet_id, 200, "",
                                            n.display_name, favorites)
                       /\ UNCHANGED houm_users
    /\ UNCHANGED <<estimate_vars, search, agent>>

NextFav ==
    \/ \E name \in NameInputs, hemnet_id \in HemnetIdInputs : favorites_add(name, hemnet_id)
    \/ \E name \in NameInputs, hemnet_id \in HemnetIdInputs : favorites_remove(name, hemnet_id)

\* both tables empty, no request answered yet
InitFav == InitBuild

SpecFav == InitFav /\ [][NextFav]_vars

(***************************************************************************)
(* Properties.                                                             *)
(***************************************************************************)
\* a recognized key whose value the compiler accepts
valid_keys(fs) ==
    {k \in DOMAIN fs :
        CASE KeyType(k) = "numeric" -> ~IsNull(fs[k])
          [] KeyType(k) = "list" -> NonEmptyList(fs[k])
          [] KeyType(k) = "unknown" -> FALSE
          [] OTHER -> fs[k].t = "list" /\ Len(fs[k].l) = 4}

\* the sum of the shares of a list of observations is at most 1 (one divisor for all)
ShareSumAtMostOne(obs) ==
    \/ obs = <<>>
    \/ /\ \A i \in DOMAIN obs : obs[i].share.den = obs[1].share.den
       /\ Sum([i \in DOMAIN obs |-> obs[i].share.num]) <= obs[1].share.den

\* a share lies in [0, 1]
ShareInUnitInterval(sh) == sh.den > 0 /\ 0 <= sh.num /\ sh.num <= sh.den

ScalarTagFields ==
    {"housing_form", "tenure", "municipality_name", "region_name", "county_name", "type"}

\* the hemnet_ids a compiled filter keeps, when the database accepts it on its own
Kept(c, data) == Matching(ParseWhere(c.sql, c.params).conds, data)

AcceptedAlone(c) == Accepted(ParseWhere(c.sql, c.params), 0)

\* C1: in every report search_estimate returns, filtered_count <= total_count.
C1_FilteredAtMostTotal ==
    pc = "done" => response.filtered_count <= response.total_count

C1_Witness ==
    /\ pc = "done"
    /\ 0 < response.filtered_count
    /\ response.filtered_count < response.total_count

\* C2: for every hard filter, a numeric field with count > 0 and min < max gets a
\* histogram whose bucket counts sum to count: the histogram statement does not
\* fail, and the recorded histogram sums to the recorded count.
C2_HistogramSumsToCount ==
    /\ pc = "failed" => response.at # "numeric_hist"
    /\ pc = "done" =>
         \A f \in DOMAIN response.numeric_distributions :
            LET d == response.numeric_distributions[f] IN
            ("count" \in DOMAIN d /\ wants_histogram(d)) =>
                Sum([i \in DOMAIN d.histogram |-> d.histogram[i].count]) = d.count

C5_SoftMatchCountsBoth ==
    LET hard == _build_filters(request.hard_filters)
        soft == _build_filters(request.soft_prefs)
    IN (/\ pc = "done" \/ (pc = "failed" /\ response.at = "soft")
        /\ DOMAIN request.soft_prefs # {}
        /\ AcceptedAlone(hard) /\ AcceptedAlone(soft))
       => /\ pc = "done"
          /\ response.soft_match_count
                = Num(Cardinality(Kept(hard, dataset) \cap Kept(soft, dataset)))

\* C6: soft_match_count is null exactly when no soft preferences are given, and an
\* integer (0 included) whenever they are given.
C6_SoftMatchNullIffNoPrefs ==
    (pc = "done" \/ (pc = "failed" /\ response.at = "soft"))
       => /\ pc = "done"
          /\ IsNull(response.soft_match_count) <=> DOMAIN request.soft_prefs = {}
          /\ DOMAIN request.soft_prefs # {} =>
                response.soft_match_count.t = "num" /\ response.soft_match_count.n >= 0

\* C7: with hard_filters {min_price: a, max_price: b} and every other argument at
\* its default the call returns a report whose filtered_count is the number of rows
\* with a <= COALESCE(price, asked_price) <= b; and every call's compiled hard
\* filter holds one comparison per range bound that is present and not None.
C7_PriceRangeCount ==
    LET hf == request.hard_filters IN
    /\ pc # "idle" =>
         CountTok(where_sql, ">=") + CountTok(where_sql, "<=")
            = Cardinality({k \in DOMAIN hf : KeyType(k) = "numeric" /\ ~IsNull(hf[k])})
    /\ (/\ pc \in {"done", "failed"}
        /\ DOMAIN hf = {"min_price", "max_price"}
        /\ hf["min_price"].t = "num" /\ hf["max_price"].t = "num"
        /\ request = Request(hf, <<>>, <<>>, <<>>, 8, 15))
       => /\ pc = "done"
          /\ response.filtered_count
                = Cardinality({id \in DOMAIN dataset :
                                 LET v == ExprValue(price_expr, dataset[id])
                                 IN /\ ~IsNull(v)
                                    /\ hf["min_price"].n <= v.n
                                    /\ v.n <= hf["max_price"].n})

\* C8: with municipalities = [v] and tag field municipality_name the call returns a
\* report whose filtered_count is the number of rows of municipality v and, when
\* that is positive, whose filtered observations are exactly (v, filtered_count, 1).
C8_SingleMunicipality ==
    LET hf == request.hard_filters IN
    (/\ pc \in {"done", "failed"}
     /\ DOMAIN hf = {"municipalities"}
     /\ NonEmptyList(hf["municipalities"]) /\ Len(hf["municipalities"].l) = 1
     /\ request.tag_fields = <<"municipality_name">>
     /\ DOMAIN request.soft_prefs = {})
    => LET v == hf["municipalities"].l[1]
           n == Cardinality({id \in DOMAIN dataset : dataset[id].municipality_name = v})
       IN /\ pc = "done"
          /\ response.filtered_count = n
          /\ n > 0 => response.tag_prevalence["municipality_name"].filtered
                        = <<[tag |-> v.s, count |-> n, share |-> Frac(n, n)]>>

SqlVocabulary ==
    {"WHERE", "AND", "%s", ">=", "<=", "BETWEEN", "IS NOT NULL", "= ANY(", ")",
     "d = ANY(", "))", districts_exists}
        \cup NumericExprs \cup TextColumns

\* C10: the text _build_filters returns is made of fixed pieces only, and an edit of
\* the FilterSpec that leaves the set of accepted recognized keys as it was (any
\* change of the values) leaves the text as it was.
C10_TextIndependentOfValues ==
    /\ [](Range(compiled.sql) \subseteq SqlVocabulary)
    /\ [][valid_keys(filters') = valid_keys(filters) => compiled'.sql = compiled.sql]_vars

C10_Witness ==
    /\ Cardinality(valid_keys(filters)) = 2
    /\ "municipalities" \in valid_keys(filters)
    /\ Get(filters, "min_price") = Num(3)
    /\ Len(compiled.params) = 2

\* a value the specification accepts for a key: a number for a range bound, a
\* non-empty list for a categorical key, four numbers for bbox
well_formed(key, value) ==
    CASE KeyType(key) = "numeric" -> value.t = "num"
      [] KeyType(key) = "list" -> NonEmptyList(value)
      [] KeyType(key) = "unknown" -> FALSE
      [] OTHER -> /\ value.t = "list" /\ Len(value.l) = 4
                  /\ \A i \in 1..4 : value.l[i].t = "num"

\* a FilterSpec without its malformed keys
well_formed_part(fs) == [k \in {x \in DOMAIN fs : well_formed(x, fs[x])} |-> fs[k]]

\* C11: a malformed key (bbox of wrong arity, non-numeric bound, bbox with a
\* non-numeric component, categorical value that is not a non-empty list, unknown
\* key) only loses its own clause: the hard filters compile to what they compile to
\* without that key, and the first statement that uses them does not fail.
C11_MalformedKeyDropped ==
    pc # "idle" =>
        /\ where_sql = _build_filters(well_formed_part(request.hard_filters)).sql
        /\ params = _build_filters(well_formed_part(request.hard_filters)).params
        /\ ~(pc = "failed" /\ response.at = "count_filtered")

\* the numeric field names the engine knows
RecognizedNumericFields ==
    {"price", "asked_price", "rooms", "square_meters", "area", "monthly_fee", "year"}

\* the tag field names the engine knows
RecognizedTagFields ==
    {"districts", "labels", "relevant_amenities", "housing_form", "tenure",
     "municipality_name", "region_name", "county_name", "type"}

\* C12: an unrecognized numeric field name gets an error marker under its name and
\* the call goes on: reaching such a name in the loop never ends the call, and in the
\* report every requested numeric field has its entry (the marker exactly for the
\* unrecognized names, a summary for the others) and every known tag field has its.
C12_UnknownNumericFieldMarked ==
    /\ [](pc = "done" =>
            /\ \A i \in DOMAIN numeric_fields :
                 LET f == numeric_fields[i] IN
                 /\ f \in DOMAIN response.numeric_distributions
                 /\ IF f \in RecognizedNumericFields
                    THEN "count" \in DOMAIN response.numeric_distributions[f]
                    ELSE response.numeric_distributions[f] = [error |-> "unsupported_field"]
            /\ \A i \in DOMAIN tag_fields :
                 tag_fields[i] \in RecognizedTagFields
                    => tag_fields[i] \in DOMAIN response.tag_prevalence)
    /\ [][(pc = "numeric_stats" /\ numeric_fields[idx] \notin RecognizedNumericFields)
            => /\ pc' \in {"numeric_stats", "soft"}
               /\ numeric_stats'[numeric_fields[idx]] = [error |-> "unsupported_field"]]_vars

C12_Witness ==
    /\ pc = "done"
    /\ request.numeric_fields = <<"year", "bogus", "area">>
    /\ response.numeric_distributions["bogus"] = [error |-> "unsupported_field"]
    /\ response.numeric_distributions["year"].count > 0
    /\ response.numeric_distributions["area"].count > 0
    /\ "municipality_name" \in DOMAIN response.tag_prevalence

\* C13: an unknown tag field name is reported inside the report: every requested
\* tag field, known or not, has an entry under its name in tag_prevalence, and the
\* step at an unknown name does not end the call.
C13_UnknownTagFieldMarked ==
    /\ pc = "done" =>
         \A i \in DOMAIN tag_fields : tag_fields[i] \in DOMAIN response.tag_prevalence
    /\ pc = "failed" => response.at # "tag_overall"

\* C14: a query that fails during search_estimate ends the whole call without a
\* report, and the caller gets the error kind backend_unavailable.
C14_QueryFailureIsBackendUnavailable ==
    pc = "failed" =>
        /\ DOMAIN response = {"status", "error", "at"}
        /\ response.status = "error"
        /\ response.error = "backend_unavailable"

\* a value brought into [low, high]
clamped(value, low, high) ==
    IF value < low THEN low ELSE IF value > high THEN high ELSE value

\* C15: from the first statement of a call on, the bucket count in use is the
\* requested bins brought into [3, 20] and the row limit in use is the requested
\* tag_limit brought into [5, 50]; no list of observations is longer than that limit.
C15_BinsAndTagLimitClamped ==
    /\ pc # "idle" =>
         /\ bins = clamped(request.bins, 3, 20)
         /\ tag_limit = clamped(request.tag_limit, 5, 50)
    /\ pc = "done" =>
         \A f \in DOMAIN response.tag_prevalence :
            /\ Len(response.tag_prevalence[f].overall) <= clamped(request.tag_limit, 5, 50)
            /\ Len(response.tag_prevalence[f].filtered) <= clamped(request.tag_limit, 5, 50)

C15_Witness ==
    /\ pc = "done"
    /\ request.bins = 25 /\ bins = 20
    /\ request.tag_limit = 1 /\ tag_limit = 5
    /\ Len(response.tag_prevalence["districts"].overall) = 5
    /\ \E f \in DOMAIN response.numeric_distributions :
         response.numeric_distributions[f].histogram # <<>>

\* the rows inside a box (min_lng, min_lat, max_lng, max_lat): both coordinates
\* present and each within its bounds
in_bbox(row, box) ==
    /\ ~IsNull(row.latitude) /\ ~IsNull(row.longitude)
    /\ box[1].n <= row.longitude.n /\ row.longitude.n <= box[3].n
    /\ box[2].n <= row.latitude.n /\ row.latitude.n <= box[4].n

\* C16: with a bbox of four numbers as the hard filter, the rows counted are exactly
\* the rows with both coordinates present and inside the box; a row missing a
\* coordinate is never counted.
C16_BboxNeedsBothCoordinates ==
    LET hf == request.hard_filters IN
    (/\ pc \in {"count_total", "tag_overall", "tag_filtered", "numeric_stats",
                "numeric_hist", "soft", "done"}
     /\ DOMAIN hf = {"bbox"} /\ well_formed("bbox", hf["bbox"]))
    => /\ filtered_count
            = Cardinality({id \in DOMAIN dataset : in_bbox(dataset[id], hf["bbox"].l)})
       /\ \A id \in Kept([sql |-> where_sql, params |-> params], dataset) :
            ~IsNull(dataset[id].latitude) /\ ~IsNull(dataset[id].longitude)

C16_Witness ==
    /\ pc = "done"
    /\ DOMAIN request.hard_filters = {"bbox"}
    /\ response.filtered_count = 1
    /\ response.total_count = 2
    /\ \E id \in DOMAIN dataset : IsNull(dataset[id].latitude)
    /\ \E id \in DOMAIN dataset :
         ~IsNull(dataset[id].latitude) /\ dataset[id].latitude # dataset[id].longitude

expected_year(row) ==
    IF row.year = Year("2", "0", "0", "5") THEN 2005
    ELSE IF row.year = Year("1", "9", "9", "9") THEN 1999
    ELSE 0

\* count, min and max of a year summary are those of the expected years of the rows
\* the hard filters keep
year_stats_as_expected(st) ==
    LET kept == Kept([sql |-> where_sql, params |-> params], dataset)
        years == {expected_year(dataset[id]) : id \in kept} \ {0}
    IN /\ st.count = Cardinality({id \in kept : expected_year(dataset[id]) # 0})
       /\ IF years = {}
          THEN IsNull(st.min) /\ IsNull(st.max)
          ELSE /\ st.min = Num(CHOOSE y \in years : \A z \in years : y <= z)
               /\ st.max = Num(CHOOSE y \in years : \A z \in years : y >= z)

\* C18: the year field counts a row only when its year text is exactly four digits,
\* with the integer those digits spell; other texts and null are left out of count,
\* min and max, and the statistics statement never fails.
C18_YearParsedStrictly ==
    /\ pc = "failed" => response.at # "numeric_stats"
    /\ (pc = "numeric_hist" /\ numeric_fields[idx] = "year") => year_stats_as_expected(stats)
    /\ "year" \in DOMAIN numeric_stats => year_stats_as_expected(numeric_stats["year"])

C18_Witness ==
    /\ pc = "done"
    /\ "year" \in DOMAIN response.numeric_distributions
    /\ response.total_count = 2 /\ response.filtered_count = 2
    /\ response.numeric_distributions["year"].count = 1
    /\ response.numeric_distributions["year"].min = Num(2005)
    /\ \E id \in DOMAIN dataset : dataset[id].year = Text(<<"a", "b", "c">>)

\* the distinct non-null values of a numeric field over the rows the hard filters keep
field_values(field) ==
    LET kept == Kept([sql |-> where_sql, params |-> params], dataset)
    IN {ExprValue(numeric_map(field), dataset[id]) : id \in kept} \ {Null}

\* C19: a numeric field with no non-null value, or with one distinct value, among
\* the filtered rows is recorded at once with an empty histogram: the histogram
\* statement is only issued for count > 0 and min < max, the step does not fail, and
\* in the report such a field has its summary (count 0 with null min and max, or the
\* full statistics) and histogram [].
C19_DegenerateHasEmptyHistogram ==
    /\ [](pc = "numeric_hist" =>
            stats.count > 0 /\ stats.min.n < stats.max.n)
    /\ [](pc = "done" =>
            \A f \in DOMAIN response.numeric_distributions :
                LET d == response.numeric_distributions[f] IN
                "count" \in DOMAIN d =>
                    /\ d.count = 0 => IsNull(d.min) /\ IsNull(d.max) /\ d.histogram = <<>>
                    /\ (d.count > 0 /\ d.min = d.max) => d.histogram = <<>>)
    /\ [][(/\ pc = "numeric_stats"
           /\ numeric_fields[idx] \in RecognizedNumericFields
           /\ Cardinality(field_values(numeric_fields[idx])) <= 1)
          => /\ pc' \in {"numeric_stats", "soft"}
             /\ numeric_stats'[numeric_fields[idx]].count
                    = Cardinality({id \in Kept([sql |-> where_sql, params |-> params], dataset) :
                                     ~IsNull(ExprValue(numeric_map(numeric_fields[idx]), dataset[id]))})
             /\ numeric_stats'[numeric_fields[idx]].histogram = <<>>]_vars

C19_Witness ==
    /\ pc = "done"
    /\ \E f \in DOMAIN response.numeric_distributions :
         LET d == response.numeric_distributions[f]
         IN "count" \in DOMAIN d /\ d.count = 0 /\ d.histogram = <<>>
    /\ \E f \in DOMAIN response.numeric_distributions :
         LET d == response.numeric_distributions[f]
         IN "count" \in DOMAIN d /\ d.count > 0 /\ d.min = d.max /\ d.histogram = <<>>
    /\ response.filtered_count = 2

\* C20: the values given for housing_form, under the key housing_forms, the key
\* housing_form or both, are alternatives: with only these keys as hard filters the
\* rows counted are the rows whose housing_form is one of the values supplied under
\* either key.
C20_CategoricalUnionWithinField ==
    LET hf == request.hard_filters IN
    (/\ pc \in {"count_total", "tag_overall", "tag_filtered", "numeric_stats",
                "numeric_hist", "soft", "done"}
     /\ DOMAIN hf # {} /\ DOMAIN hf \subseteq {"housing_forms", "housing_form"}
     /\ \A k \in DOMAIN hf : well_formed(k, hf[k]))
    => filtered_count
          = Cardinality({id \in DOMAIN dataset :
                           \E k \in DOMAIN hf : dataset[id].housing_form \in Range(hf[k].l)})

\* the expression and the comparison a range key stands for
range_key_table ==
    << <<"min_price", price_expr, ">=">>, <<"max_price", price_expr, "<=">>,
       <<"min_rooms", "rooms", ">=">>, <<"max_rooms", "rooms", "<=">>,
       <<"min_area", "square_meters", ">=">>, <<"max_area", "square_meters", "<=">>,
       <<"min_year", year_expr, ">=">>, <<"max_year", year_expr, "<=">>,
       <<"min_monthly_fee", "monthly_fee", ">=">>, <<"max_monthly_fee", "monthly_fee", "<=">> >>

\* the clauses one catalog key contributes to the compilation of fs
key_parts(fs, key) ==
    CASE KeyType(key) = "numeric" ->
            LET e == range_key_table[CHOOSE i \in DOMAIN range_key_table :
                                        range_key_table[i][1] = key]
            IN Bound(fs, key, e[2], e[3])
      [] KeyType(key) = "list" /\ key # "districts" ->
            list_clauses(fs, SelectSeq(list_filters, LAMBDA pair : pair[1] = key))
      [] key = "districts" -> districts_clause(fs)
      [] key = "bbox" -> bbox_clauses(fs)
      [] OTHER -> <<>>

\* the clauses of fs, key by key in the order of the catalog
RECURSIVE parts_in_catalog_order(_, _)
parts_in_catalog_order(fs, entries) ==
    IF entries = <<>> THEN <<>>
    ELSE key_parts(fs, Head(entries)[1]) \o parts_in_catalog_order(fs, Tail(entries))

\* C21: the clauses and parameters _build_filters returns are those of the keys
\* present, in the order in which attributes_list registers the keys.
C21_ClausesInCatalogOrder ==
    LET parts == parts_in_catalog_order(filters, hard_filter_catalog)
        clauses == [i \in DOMAIN parts |-> parts[i].clause]
    IN /\ compiled.sql = IF clauses = <<>> THEN <<>> ELSE <<"WHERE">> \o JoinAnd(clauses)
       /\ compiled.params = Concat([i \in DOMAIN parts |-> parts[i].params])

\* C22: a histogram in a report has at most bins buckets and every bucket index
\* lies in 1..bins, the bucket of the rows at the maximum included.
C22_BucketsWithinBins ==
    pc = "done" =>
        \A f \in DOMAIN response.numeric_distributions :
            LET d == response.numeric_distributions[f] IN
            "histogram" \in DOMAIN d =>
                /\ Len(d.histogram) <= bins
                /\ \A i \in DOMAIN d.histogram : d.histogram[i].bucket \in 1..bins

\* C23: the figures of one report belong to one state of the table, also when the
\* backfill commits between the call's statements: no filtered observation counts
\* more items than filtered_count, no count exceeds total_count, and
\* soft_match_count does not exceed filtered_count.
C23_ReportFromOneSnapshot ==
    pc = "done" =>
        /\ response.filtered_count <= response.total_count
        /\ \A f \in DOMAIN response.tag_prevalence :
             /\ \A i \in DOMAIN response.tag_prevalence[f].filtered :
                  response.tag_prevalence[f].filtered[i].count <= response.filtered_count
             /\ \A i \in DOMAIN response.tag_prevalence[f].overall :
                  response.tag_prevalence[f].overall[i].count <= response.total_count
        /\ ~IsNull(response.soft_match_count) =>
                response.soft_match_count.n <= response.filtered_count

\* obs is a top-`limit` selection of the tag counts of `field` over the rows `ids`
top_tags(obs, field, ids, limit) ==
    LET q == _tag_query(field)
        counts == TagCounts(q[1], q[2], ids, dataset)
        returned == {Str(obs[i].tag) : i \in DOMAIN obs}
    IN /\ Len(obs) <= limit
       /\ \A i \in DOMAIN obs, j \in DOMAIN obs :
            /\ i < j => obs[i].count >= obs[j].count
            /\ i # j => obs[i].tag # obs[j].tag
       /\ \A i \in DOMAIN obs :
            /\ obs[i].tag # ""
            /\ Str(obs[i].tag) \in DOMAIN counts
            /\ obs[i].count = counts[Str(obs[i].tag)]
       /\ \A t \in (DOMAIN counts) \ returned :
            /\ Len(obs) = limit
            /\ \A i \in DOMAIN obs : counts[t] <= obs[i].count

\* C24: for each tag field of a report and each population, the observations are at
\* most the clamped tag_limit, in non-increasing order of count, each a non-empty
\* tag with its distinct item count, and a tag is left out only when the limit is
\* reached and its count is not larger than any returned one.
C24_TopTagsByCount ==
    pc = "done" =>
        \A f \in DOMAIN response.tag_prevalence :
            /\ top_tags(response.tag_prevalence[f].overall, f, DOMAIN dataset,
                        clamped(request.tag_limit, 5, 50))
            /\ top_tags(response.tag_prevalence[f].filtered, f,
                        Kept([sql |-> where_sql, params |-> params], dataset),
                        clamped(request.tag_limit, 5, 50))

C24_Witness ==
    /\ pc = "done"
    /\ "districts" \in DOMAIN response.tag_prevalence
    /\ LET obs == response.tag_prevalence["districts"].filtered
       IN /\ Len(obs) = 5 /\ obs[1].count = 2 /\ obs[5].count = 1
          /\ Cardinality(UNION {Range(Elements(dataset[id].districts)) : id \in DOMAIN dataset}) = 6
    /\ \E id \in DOMAIN dataset : dataset[id].municipality_name = Str("")

\* a value no FilterSpec holds: the owner of a placeholder the texts do not explain
NoOwner == Str("no owner")

\* the value the placeholder at position i of toks stands for, read off the text in
\* front of it: a bound of fs, a categorical list of fs, a corner of the bbox of
\* fs, or `tail`, the value behind LIMIT or inside width_bucket; `from` is where the
\* text compiled from fs begins
placeholder_value(toks, i, from, fs, tail) ==
    LET prev == IF i > 1 THEN toks[i - 1] ELSE ""
        expr == IF i > 2 THEN toks[i - 2] ELSE ""
        bbox == Get(fs, "bbox")
        first == IF expr = "longitude" THEN 1 ELSE 2
    IN CASE prev \in {">=", "<="} ->
              LET ks == {j \in DOMAIN range_key_table :
                            range_key_table[j][2] = expr /\ range_key_table[j][3] = prev}
              IN IF ks = {} THEN NoOwner ELSE Get(fs, range_key_table[CHOOSE j \in ks : TRUE][1])
         [] prev = "BETWEEN" /\ expr \in {"longitude", "latitude"} ->
              IF bbox.t = "list" /\ Len(bbox.l) = 4 THEN bbox.l[first] ELSE NoOwner
         [] prev = "AND" /\ i > 4 /\ toks[i - 3] = "BETWEEN"
                /\ toks[i - 4] \in {"longitude", "latitude"} ->
              IF bbox.t = "list" /\ Len(bbox.l) = 4
              THEN bbox.l[IF toks[i - 4] = "longitude" THEN 3 ELSE 4]
              ELSE NoOwner
         [] prev = "= ANY(" ->
              LET nth == Cardinality({j \in from..(i - 1) :
                                        j > 1 /\ toks[j] = "= ANY(" /\ toks[j - 1] = expr})
                  keys == SelectSeq(list_filters,
                                    LAMBDA pair : pair[2] = expr
                                                    /\ NonEmptyList(Get(fs, pair[1])))
              IN IF nth <= Len(keys) THEN fs[keys[nth][1]] ELSE NoOwner
         [] prev = "d = ANY(" -> Get(fs, "districts")
         [] prev \in {"LIMIT", "width_bucket(value, bounds.min_v, bounds.max_v,"} -> tail
         [] OTHER -> NoOwner

\* the owners of the placeholders at positions from..to of toks, in text order
RECURSIVE placeholder_values(_, _, _, _, _)
placeholder_values(toks, from, to, fs, tail) ==
    IF from > to THEN <<>>
    ELSE placeholder_values(toks, from, to - 1, fs, tail)
            \o (IF toks[to] = "%s" THEN <<placeholder_value(toks, to, from, fs, tail)>>
                ELSE <<>>)

\* the parameters of st are the owners of its placeholders, one for one
bound_in_order(st, fs, tail) ==
    /\ CountTok(st.sql, "%s") = Len(st.params)
    /\ st.params = placeholder_values(st.sql, 1, Len(st.sql), fs, tail)

\* the position in the soft statement's text where the soft clauses begin
soft_start ==
    IF where_sql = <<>> THEN 2 ELSE 3 + Len(remove_where(where_sql))

\* C25: in every statement search_estimate and listings_search execute the text
\* has as many %s as there are parameters and the i-th parameter is the value of
\* the i-th %s: the bound or list of the clause it stands in, the bbox corners as
\* min_lng, max_lng, min_lat, max_lat, tag_limit or bins (or the listing limit)
\* last, and in the combined statement the hard parameters before the soft ones.
C25_ParametersFollowPlaceholders ==
    /\ (pc # "soft" /\ statement # NoStatement) =>
          bound_in_order(statement, request.hard_filters,
                         IF pc = "numeric_hist"
                         THEN Num(clamped(request.bins, 3, 20))
                         ELSE Num(clamped(request.tag_limit, 5, 50)))
    /\ (pc = "soft" /\ statement # NoStatement) =>
          /\ CountTok(statement.sql, "%s") = Len(statement.params)
          /\ statement.params =
                placeholder_values(statement.sql, 1, soft_start - 1,
                                   request.hard_filters, NoOwner)
                  \o placeholder_values(statement.sql, soft_start,
                                        Len(statement.sql), request.soft_prefs, NoOwner)
    /\ pc = "count_filtered" =>
          \A l \in LimitInputs, o \in OrderByInputs :
              bound_in_order(listings_statement(request.hard_filters, l, o),
                             request.hard_filters, Num(clamped(l, 1, 100)))

C25_Witness ==
    /\ pc = "soft"
    /\ Len(statement.params) = 5
    /\ Len(params) = 4
    /\ Get(request.hard_filters, "bbox") = List(<<Num(0), Num(0), Num(5), Num(9)>>)
    /\ SubSeq(statement.params, 1, 4) = <<Num(0), Num(5), Num(0), Num(9)>>
    /\ "municipality_name" \in DOMAIN tag_stats

\* FilterSpecs of recognized keys that can be laid on top of another one
FurtherKeys ==
    {fs \in HardFilterInputs \cup SoftPrefInputs : DOMAIN fs # {} /\ DOMAIN fs \subseteq CatalogKeys}
        \cup {(k :> v) : k \in {"max_price", "min_rooms", "tenure", "districts", "bbox"},
                         v \in {Null, Num(3), List(<<Str("Condo"), Str("Soder")>>),
                                List(<<Num(0), Num(0), Num(5), Num(9)>>)}}

\* the FilterSpecs that are fs with further recognized keys added
extensions(fs) ==
    {more @@ fs : more \in {m \in FurtherKeys : DOMAIN m \cap DOMAIN fs = {}}}

\* C26: on a table that does not change during the call, a report that carries
\* soft_match_count has soft_match_count <= filtered_count <= total_count, and a
\* FilterSpec with further recognized keys, when the database accepts it, matches
\* no more rows than filtered_count.
C26_MoreKeysNeverMore ==
    /\ (pc = "done" /\ ~IsNull(response.soft_match_count)) =>
          /\ response.soft_match_count.n <= response.filtered_count
          /\ response.filtered_count <= response.total_count
    /\ pc = "count_total" =>
          \A fs \in extensions(request.hard_filters) :
              LET c == _build_filters(fs)
                  r == ExecCount(c.sql, c.params, dataset)
              IN r.ok => r.count <= filtered_count

C26_Witness ==
    /\ pc = "done"
    /\ ~IsNull(response.soft_match_count)
    /\ response.soft_match_count.n < response.filtered_count
    /\ response.filtered_count < response.total_count
    /\ DOMAIN request.hard_filters # {}
    /\ \E fs \in extensions(request.hard_filters) :
          LET c == _build_filters(fs)
              r == ExecCount(c.sql, c.params, dataset)
          IN r.ok /\ r.count < response.filtered_count

ListingsVocabulary ==
    SqlVocabulary \cup {listings_select, "ORDER BY", "LIMIT"}
        \cup {order_map[k] : k \in DOMAIN order_map}

\* C30: the statement of listings_search is made of fixed text only; its ORDER BY
\* expression is the whitelist entry of order_by, or the price-descending entry when
\* order_by is not in the whitelist; the limit it binds lies in 1..100; and the
\* returned count is the number of returned listings and does not exceed that limit.
C30_ListingsWhitelistAndLimit ==
    search.pc # "idle" =>
        LET n == Len(search.sql)
            o == search.request.order_by
        IN /\ Range(search.sql) \subseteq ListingsVocabulary
           /\ search.sql[n - 3] = "ORDER BY"
           /\ search.sql[n - 2] \in {order_map[k] : k \in DOMAIN order_map}
           /\ search.sql[n - 2] =
                 IF o \in DOMAIN order_map THEN order_map[o]
                 ELSE "COALESCE(price, asked_price) DESC NULLS LAST"
           /\ search.limit \in 1..100
           /\ search.limit = clamped(search.request.limit, 1, 100)
           /\ search.params[Len(search.params)] = Num(search.limit)
           /\ search.pc = "done" =>
                 /\ search.response.count = Len(search.response.listings)
                 /\ search.response.count <= search.limit

C30_Witness ==
    /\ search.pc = "done"
    /\ search.request.order_by = "rooms DESC; DROP TABLE hemnet_items"
    /\ search.request.limit = 0
    /\ search.response.count = 1
    /\ Cardinality(DOMAIN dataset) = 2
    /\ search.request.hard_filters = ("municipalities" :> List(<<Str("Stockholm")>>))
    /\ \A id \in DOMAIN dataset : dataset[id].municipality_name = Str("Stockholm")

\* the positions in agent.runs of the runs that came back with a result
completed_runs == {i \in DOMAIN agent.runs : agent.runs[i].kind = "result"}

\* the positions of the Runner.run calls made with prompt p
runs_on(p) == {i \in DOMAIN agent.runs : agent.runs[i].prompt = p}

\* C28: _run_agent gives Runner.run the original prompt and, only after a result
\* on the original prompt that shows no tool use, the forced prompt, and no other
\* prompt; at most one run per prompt comes back with a result (a call that ends
\* in a TypeError is repeated with fewer keyword arguments, at most three calls per
\* prompt); it returns the final output of the last result when that result
\* shows tool use and the fixed message otherwise.
C28_BoundedRetry ==
    agent.pc # "idle" =>
        LET original == agent.prompt
            forced == forced_prompt(agent.prompt)
            n == Len(agent.runs)
        IN /\ \A i \in DOMAIN agent.runs : agent.runs[i].prompt \in {original, forced}
           /\ \A i \in runs_on(original), j \in runs_on(forced) : i < j
           /\ Cardinality(runs_on(original)) <= 3 /\ Cardinality(runs_on(forced)) <= 3
           /\ Cardinality(completed_runs \cap runs_on(original)) <= 1
           /\ Cardinality(completed_runs \cap runs_on(forced)) <= 1
           /\ \A i \in completed_runs : i = n \/ agent.runs[i + 1].prompt = forced
           /\ runs_on(forced) # {} =>
                 \E i \in completed_runs \cap runs_on(original) :
                     ~_agent_used_tool(agent.runs[i].result)
           /\ agent.pc = "second" =>
                 \E i \in completed_runs \cap runs_on(original) :
                     ~_agent_used_tool(agent.runs[i].result)
           /\ agent.pc = "returned" =>
                 /\ n \in completed_runs
                 /\ agent.reply = IF _agent_used_tool(agent.runs[n].result)
                                  THEN final_output_or_empty(agent.runs[n].result)
                                  ELSE could_not_access
                 /\ ~_agent_used_tool(agent.runs[n].result) => agent.runs[n].prompt = forced

C28_Witness ==
    /\ agent.pc = "returned"
    /\ agent.reply = could_not_access
    /\ Len(agent.runs) = 5
    /\ Cardinality(completed_runs) = 2
    /\ agent.runs[3].kwargs = {} /\ agent.runs[3].prompt = agent.prompt
    /\ agent.runs[4].kwargs = {"tool_choice", "mcp_servers"}
    /\ agent.runs[4].prompt = forced_prompt(agent.prompt)
    /\ agent.runs[5].result.final_output = Str("TOOL_UNAVAILABLE")

\* a name without the blanks around it
trimmed(cs) ==
    LET solid == {i \in DOMAIN cs : cs[i] \notin {" ", "\t"}}
    IN IF solid = {} THEN <<>>
       ELSE SubSeq(cs, CHOOSE i \in solid : \A j \in solid : i <= j,
                       CHOOSE i \in solid : \A j \in solid : i >= j)

lower(c) == IF c = "A" THEN "a" ELSE IF c = "B" THEN "b" ELSE c

\* two names that are equal after trimming and case-folding
same_person(a, b) ==
    /\ a.t = "text" /\ b.t = "text"
    /\ trimmed(a.l) # <<>>
    /\ Len(trimmed(a.l)) = Len(trimmed(b.l))
    /\ \A i \in DOMAIN trimmed(a.l) : lower(trimmed(a.l)[i]) = lower(trimmed(b.l)[i])

\* the listing a request names
listing_of(value) == IF value.t = "num" THEN value.n ELSE DigitValue(value.l[1])

\* the listings held, in the given tables, for the person called `name`
favorites_of(name, users, favorites) ==
    {f.hemnet_id : f \in {g \in favorites :
                            \E u \in users : u.id = g.user_id /\ same_person(u.name, name)}}

\* what the request answered by `answer` does to the favorites of `name`
favorites_after(answer, name, before) ==
    IF answer.status = 200 /\ same_person(answer.name, name)
    THEN IF answer.op = "add" THEN before \cup {listing_of(answer.hemnet_id)}
         ELSE before \ {listing_of(answer.hemnet_id)}
    ELSE before

\* C29: over any sequence of favorites_add and favorites_remove requests there is
\* one user per set of names equal after trimming and case-folding; a successful
\* request adds its listing to, or takes it from, the favorites of that user and of
\* nobody else, and is answered with exactly that user's favorites, each once; a
\* favorites_remove for a name without a user is answered not_found and leaves
\* both tables as they were.
C29_FavoritesPerPerson ==
    /\ [](/\ \A u \in houm_users, v \in houm_users :
                (same_person(u.name, v.name) \/ u.id = v.id) => u = v
          /\ http.status = 200 =>
                /\ Range(http.favorites) = favorites_of(http.name, houm_users, houm_favorites)
                /\ Cardinality(Range(http.favorites)) = Len(http.favorites))
    /\ [][/\ \A name \in {n \in NameInputs : n.t = "text" /\ trimmed(n.l) # <<>>} :
                    favorites_of(name, houm_users', houm_favorites')
                      = favorites_after(http', name,
                                        favorites_of(name, houm_users, houm_favorites))
          /\ http'.status # 200 => UNCHANGED <<houm_users, houm_favorites>>
          /\ (/\ http'.op = "remove"
              /\ \A u \in houm_users : ~same_person(u.name, http'.name)) =>
                /\ http'.status \in {400, 404}
                /\ (http'.status = 400
                        \/ (http'.detail = "not_found" /\ http'.name.t = "text"
                                /\ trimmed(http'.name.l) # <<>>))
                /\ UNCHANGED <<houm_users, houm_favorites>>]_vars

C29_Witness ==
    /\ http.status = 200 /\ http.op = "remove"
    /\ http.name = Text(<<"A", "B">>) /\ http.hemnet_id = Text(<<"2">>)
    /\ http.favorites = <<1>>
    /\ Cardinality(houm_users) = 2
    /\ \E u \in houm_users : u.name = Text(<<"A", "b">>)
    /\ Cardinality(houm_favorites) = 3
====
